---- MODULE Spec2Model ----
(***************************************************************************)
(* Documentation generator agent (src/app.js): the task-signature cache    *)
(* (generateTaskSignature, readLTM/writeLTM, findInLTM, saveToLTM) and the *)
(* /execute handler that uses it.                                          *)
(*                                                                         *)
(* Strings are sequences of characters, so that hash.update, which feeds   *)
(* the digest the plain concatenation of its arguments, is modelled by     *)
(* what it does.  JavaScript values are tagged records.                    *)
(***************************************************************************)
EXTENDS Integers, Sequences, FiniteSets, TLC

VARIABLES
    \* two calls of generateTaskSignature (specification SpecSig)
    taskA, taskB,       \* the two task descriptions
    remoteA, remoteB,   \* what `git ls-remote <url> HEAD` did on each call
    sigA, sigB,         \* the two signatures returned
    sigStep,            \* which pair of calls was made
    \* one store object and the puts made on it (specification SpecLTM)
    ltmData,            \* the store object: its entries in key insertion order
    ltmFile,            \* the content of LTM/memory.json
    clock,              \* the wall clock, in milliseconds
    lastPut,            \* the last saveToLTM call: arguments, store before, content written
    puts,               \* the number of saveToLTM calls made
    \* the /execute handler serving requests (specification Spec)
    reqs,               \* each request: where its handler stands, and its locals
    head,               \* the commit the remote repository's HEAD points to
    \* one job followed through its batches (specification SpecJob)
    job,                \* the task's inputs, the handler's position and its locals
    \* the calls to the inference service over time (specification SpecRate)
    rateJobs,           \* each job: its number of files and where its loop stands
    rateNow,            \* the time, in milliseconds
    rateCalls,          \* the calls started so far: how many at which time
    \* buildOpenApiEndpoint called on an endpoint (specification SpecBuild)
    build               \* the endpoint, the variant called and what it returned

sigVars == <<taskA, taskB, remoteA, remoteB, sigA, sigB, sigStep>>

ltmVars == <<ltmData, ltmFile, clock, lastPut, puts>>

exeVars == <<reqs, head>>

jobVars == <<job>>

rateVars == <<rateJobs, rateNow, rateCalls>>

buildVars == <<build>>

vars == <<sigVars, ltmVars, exeVars, jobVars, rateVars, buildVars>>

\* no job is followed and no call is counted
NoJob == [pc |-> "none"]
NoBuild == [pc |-> "none"]
JobsIdle ==
    /\ job = NoJob
    /\ rateJobs = <<>> /\ rateNow = 0 /\ rateCalls = <<>>
    /\ build = NoBuild

(***************************************************************************)
(* JavaScript values                                                       *)
(***************************************************************************)
Undef == [kind |-> "undefined"]
Str(s) == [kind |-> "string", chars |-> s]
Arr(xs) == [kind |-> "array", items |-> xs]
\* an object: its own members in insertion order, each <<key, value>>
Obj(ms) == [kind |-> "object", members |-> ms]

\* JavaScript truthiness, as used by `x || d` and `if (x)`: undefined/null and
\* the empty string are falsy, arrays and objects are truthy.
Truthy(v) ==
    CASE v.kind = "undefined" -> FALSE
      [] v.kind = "null" -> FALSE
      [] v.kind = "string" -> v.chars # <<>>
      [] v.kind = "number" -> v.value # 0
      [] OTHER -> TRUE

OrElse(v, d) == IF Truthy(v) THEN v ELSE d

\* the object without own properties
EmptyObject == [k \in {} |-> Undef]

(***************************************************************************)
(* Bounds of the inputs                                                    *)
(***************************************************************************)
MaxFiles == 2

SeqsUpTo(S, n) == UNION {[1..k -> S] : k \in 0..n}

\* "é" is the precomposed letter, <<"e", "´">> the letter followed by the
\* combining accent: different strings that the collation takes as equal.
FileEntries ==
    {[file_path |-> <<"a">>, content_base64 |-> <<"a">>],
     [file_path |-> <<"a">>, content_base64 |-> <<"b", "a">>],
     [file_path |-> <<"a", "b">>, content_base64 |-> <<"a">>],
     [file_path |-> <<"é">>, content_base64 |-> <<"a">>],
     [file_path |-> <<"e", "´">>, content_base64 |-> <<"a">>]}

FileLists == SeqsUpTo(FileEntries, MaxFiles)

LanguageValues ==
    {Undef, Str(<<"j", "s">>), Str(<<"u", "n", "k", "n", "o", "w", "n">>)}

PatternValues ==
    {Undef, Arr(<<<<"a">>>>), Str(<<"d", "e", "f", "a", "u", "l", "t">>)}

ZipValues == {Undef, Str(<<"z">>)}

UrlValues == {Undef, Str(<<"u">>)}

DocValues == {Undef, Obj(<<>>), Obj(<< <<<<"p">>, Obj(<<>>)>> >>)}

Tasks ==
    [language : LanguageValues,
     search_patterns : PatternValues,
     zip_file_base64 : ZipValues,
     code_files_base64 : FileLists,
     git_repo_url : UrlValues,
     existing_documentation : DocValues]

\* What simpleGit().listRemote([url, 'HEAD']) does: it throws, or it returns
\* its output, "<sha>\tHEAD\n" for a repository with a HEAD and "" for one
\* without.  "1" and "2" stand for two commit hashes.
NotCalled == [kind |-> "notcalled"]
Threw == [kind |-> "throws"]
Returned(s) == [kind |-> "returns", text |-> s]
TAB == "\t"
RemoteOutcomes ==
    {Threw, Returned(<<>>),
     Returned(<<"1", TAB, "H", "E", "A", "D">>),
     Returned(<<"2", TAB, "H", "E", "A", "D">>)}

(***************************************************************************)
(* generateTaskSignature                                                   *)
(***************************************************************************)
RECURSIVE Concat(_)
Concat(ss) == IF ss = <<>> THEN <<>> ELSE Head(ss) \o Concat(Tail(ss))

\* JSON string escaping of the two characters that need it here
RECURSIVE JSONEscape(_)
JSONEscape(s) ==
    IF s = <<>> THEN <<>>
    ELSE (IF Head(s) \in {"\"", "\\"} THEN <<"\\", Head(s)>> ELSE <<Head(s)>>)
         \o JSONEscape(Tail(s))

JSONQuote(s) == <<"\"">> \o JSONEscape(s) \o <<"\"">>

RECURSIVE JoinComma(_)
JoinComma(ss) ==
    IF ss = <<>> THEN <<>>
    ELSE IF Len(ss) = 1 THEN Head(ss)
    ELSE Head(ss) \o <<",">> \o JoinComma(Tail(ss))

\* JSON.stringify(v) with no indentation: a string, an array of strings, or an
\* object whose members are written in insertion order.
RECURSIVE JSONStringify(_)
JSONStringify(v) ==
    CASE v.kind = "string" -> JSONQuote(v.chars)
      [] v.kind = "array" ->
            <<"[">> \o JoinComma([i \in 1..Len(v.items) |-> JSONQuote(v.items[i])])
            \o <<"]">>
      [] v.kind = "object" ->
            <<"{">>
            \o JoinComma([i \in 1..Len(v.members) |->
                   JSONQuote(v.members[i][1]) \o <<":">>
                   \o JSONStringify(v.members[i][2])])
            \o <<"}">>

\* Canonical composition: the collation behind String.prototype.localeCompare
\* compares canonically equivalent strings as equal.
RECURSIVE Normalize(_)
Normalize(s) ==
    IF s = <<>> THEN <<>>
    ELSE IF Len(s) >= 2 /\ s[1] = "e" /\ s[2] = "´"
         THEN <<"é">> \o Normalize(SubSeq(s, 3, Len(s)))
         ELSE <<s[1]>> \o Normalize(Tail(s))

CollationWeight(c) ==
    CASE c = "a" -> 1 [] c = "b" -> 2 [] c = "e" -> 3 [] c = "é" -> 4
      [] OTHER -> 5

RECURSIVE CompareWeights(_, _)
CompareWeights(s, t) ==
    IF s = <<>> /\ t = <<>> THEN 0
    ELSE IF s = <<>> THEN -1
    ELSE IF t = <<>> THEN 1
    ELSE IF CollationWeight(Head(s)) < CollationWeight(Head(t)) THEN -1
    ELSE IF CollationWeight(Head(s)) > CollationWeight(Head(t)) THEN 1
    ELSE CompareWeights(Tail(s), Tail(t))

\* a.localeCompare(b): negative, zero or positive
LocaleCompare(a, b) == CompareWeights(Normalize(a), Normalize(b))

\* x put into a list sorted by path, after every element that does not come
\* after it: Array.prototype.sort is stable.
RECURSIVE InsertByPath(_, _)
InsertByPath(x, sorted) ==
    IF sorted = <<>> THEN <<x>>
    ELSE IF LocaleCompare(Head(sorted).file_path, x.file_path) <= 0
         THEN <<Head(sorted)>> \o InsertByPath(x, Tail(sorted))
         ELSE <<x>> \o sorted

RECURSIVE SortStable(_)
SortStable(files) ==
    IF files = <<>> THEN <<>>
    ELSE InsertByPath(files[Len(files)], SortStable(SubSeq(files, 1, Len(files) - 1)))

\* [...code_files_base64].sort((a, b) => a.file_path.localeCompare(b.file_path))
SortFiles(files) == SortStable(files)

\* for (const file of sortedFiles) { update(file_path); update(content_base64) }
FilesBytes(files) ==
    Concat([i \in 1..Len(files) |-> files[i].file_path \o files[i].content_base64])

RECURSIVE UpToTab(_)
UpToTab(s) ==
    IF s = <<>> \/ Head(s) = TAB THEN <<>> ELSE <<Head(s)>> \o UpToTab(Tail(s))

\* getGitCommitHash without the revision: null whatever the lookup returns
GetGitCommitHashNoRev(remote) == Undef

\* getGitCommitHash answering a failed lookup with the text "null"
GetGitCommitHashNullText(remote) ==
    IF remote.kind # "returns" \/ remote.text = <<>> THEN Str(<<"n", "u", "l", "l">>)
    ELSE Str(UpToTab(remote.text))

\* getGitCommitHash: null when the lookup throws or returns nothing, else the
\* text before the first tab
GetGitCommitHash(remote) ==
    IF remote.kind # "returns" \/ remote.text = <<>> THEN Undef
    ELSE Str(UpToTab(remote.text))

\* which branch of the if / else-if chain of generateTaskSignature is taken
SignatureMode(taskData) ==
    IF Truthy(taskData.zip_file_base64) THEN "zip"
    ELSE IF Len(taskData.code_files_base64) > 0 THEN "files"
    ELSE IF Truthy(taskData.git_repo_url) THEN "git"
    ELSE "none"

\* the bytes the branch taken feeds to the digest
SourceBytes(taskData, remote) ==
    CASE SignatureMode(taskData) = "zip" ->
            <<"m", "o", "d", "e", ":", "z", "i", "p">>
            \o taskData.zip_file_base64.chars
      [] SignatureMode(taskData) = "files" ->
            <<"m", "o", "d", "e", ":", "f", "i", "l", "e", "s">>
            \o FilesBytes(SortFiles(taskData.code_files_base64))
      [] SignatureMode(taskData) = "git" ->
            <<"m", "o", "d", "e", ":", "g", "i", "t">>
            \o taskData.git_repo_url.chars
            \o OrElse(GetGitCommitHash(remote), Str(<<"H", "E", "A", "D">>)).chars
      [] OTHER -> <<>>

\* everything generateTaskSignature feeds to the digest, in order
SignatureBytes(taskData, remote) ==
    OrElse(taskData.language, Str(<<"u", "n", "k", "n", "o", "w", "n">>)).chars
    \o JSONStringify(OrElse(taskData.search_patterns,
                            Str(<<"d", "e", "f", "a", "u", "l", "t">>)))
    \o SourceBytes(taskData, remote)
    \o (IF Truthy(taskData.existing_documentation)
        THEN JSONStringify(taskData.existing_documentation) ELSE <<>>)

\* SHA-256 taken as injective: a digest is named by the bytes it was taken of
Sha256Hex(bytes) == [sha256 |-> bytes]

GenerateTaskSignature(taskData, remote) == Sha256Hex(SignatureBytes(taskData, remote))

\* no signature computed yet
NoSig == [sha256 |-> <<"?">>]

\* the remote lookup is made only in the git branch
RemoteFor(taskData) ==
    IF SignatureMode(taskData) = "git" THEN RemoteOutcomes ELSE {NotCalled}

(***************************************************************************)
(* The store: findInLTM and saveToLTM                                      *)
(*                                                                         *)
(* A store is the sequence of its entries [key, result, timestamp] in key  *)
(* insertion order, which is the order of Object.entries and of the JSON   *)
(* text written to the file.  A timestamp is the millisecond count that    *)
(* toISOString writes and new Date(...) reads back.                        *)
(***************************************************************************)
LTM_WINDOW_SIZE == 10

MaxPuts == 1
\* the entries of a loaded store that carry the older of its two timestamps
MaxOld == 2

\* JavaScript null, and a stored result that only carries a name
Null == [kind |-> "null"]
Result(name) == [kind |-> "result", name |-> name]

\* LTM/memory.json: absent, or the text JSON.stringify wrote of a store
NoFile == [kind |-> "missing"]
FileOf(store) == [kind |-> "text", data |-> store]

NoPut == [sig |-> 0, result |-> Null, before |-> <<>>, handed |-> <<>>, now |-> 0]

Keys(store) == {store[i].key : i \in 1..Len(store)}

EntryOf(store, k) == store[CHOOSE i \in 1..Len(store) : store[i].key = k]

\* findInLTM: the result stored under the signature, or null.  A stored result
\* is an object and a stored timestamp a non-empty string, so an entry that is
\* there passes (entry && entry.result && entry.timestamp) unless its result is
\* null.
FindInLTM(signature, store) ==
    IF signature \in Keys(store) /\ EntryOf(store, signature).result # Null
    THEN EntryOf(store, signature).result
    ELSE Null

\* ltmData[signature] = { result, timestamp }: an existing key keeps its place,
\* a new key goes last
SetEntry(store, signature, result, now) ==
    LET e == [key |-> signature, result |-> result, timestamp |-> now]
    IN IF signature \in Keys(store)
       THEN [i \in 1..Len(store) |-> IF store[i].key = signature THEN e ELSE store[i]]
       ELSE Append(store, e)

RECURSIVE InsertByTimestamp(_, _)
InsertByTimestamp(x, sorted) ==
    IF sorted = <<>> THEN <<x>>
    ELSE IF Head(sorted).timestamp - x.timestamp <= 0
         THEN <<Head(sorted)>> \o InsertByTimestamp(x, Tail(sorted))
         ELSE <<x>> \o sorted

RECURSIVE SortStableByTimestamp(_)
SortStableByTimestamp(entries) ==
    IF entries = <<>> THEN <<>>
    ELSE InsertByTimestamp(entries[Len(entries)],
                           SortStableByTimestamp(SubSeq(entries, 1, Len(entries) - 1)))

\* SortByTimestamp done wrong: the entries stay in insertion order
SortByTimestampNoSort(entries) == entries

\* entries.sort((a, b) => new Date(a[1].timestamp) - new Date(b[1].timestamp))
SortByTimestamp(entries) == SortStableByTimestamp(entries)

\* KeysToDelete done wrong: the newest entries are taken
KeysToDeleteNewest(entries) ==
    {SortByTimestamp(entries)[i].key :
        i \in (LTM_WINDOW_SIZE + 1)..Len(entries)}

\* entries.slice(0, entries.length - LTM_WINDOW_SIZE).map(e => e[0])
KeysToDelete(entries) ==
    {SortByTimestamp(entries)[i].key : i \in 1..(Len(entries) - LTM_WINDOW_SIZE)}

\* OverWindow done wrong: one entry too many is let through
OverWindowOffByOne(entries) == Len(entries) > LTM_WINDOW_SIZE + 1

\* if (entries.length > LTM_WINDOW_SIZE)
OverWindow(entries) == Len(entries) > LTM_WINDOW_SIZE

RECURSIVE WithoutKeys(_, _)
WithoutKeys(store, ks) ==
    IF store = <<>> THEN <<>>
    ELSE (IF Head(store).key \in ks THEN <<>> ELSE <<Head(store)>>)
         \o WithoutKeys(Tail(store), ks)

\* saveToLTM done wrong: the entry is not set
SaveToLTMNoSet(signature, result, store, now) == store

\* saveToLTM up to its write: the store object after the entry is set and the
\* oldest entries beyond the window are deleted
SaveToLTM(signature, result, store, now) ==
    LET set == SetEntry(store, signature, result, now)
    IN IF OverWindow(set) THEN WithoutKeys(set, KeysToDelete(set)) ELSE set

\* readLTM done wrong: a file that is no JSON yields an entry
ReadLTMKeepsGarbage(file) ==
    IF file.kind = "text" THEN file.data
    ELSE IF file.kind = "missing" THEN <<>>
    ELSE <<[key |-> 0, result |-> Null, timestamp |-> 0]>>

\* readLTM: the parsed file, or {} when there is none or JSON.parse throws
ReadLTM(file) == IF file.kind = "text" THEN file.data ELSE <<>>

\* writeLTM: the file takes the content, or the write fails and the failure is
\* logged and swallowed
WriteLTM(file, data, ok) == IF ok THEN FileOf(data) ELSE file

(***************************************************************************)
(* SpecLTM: puts on a store loaded from a file this program wrote          *)
(***************************************************************************)
\* A loaded store: at most LTM_WINDOW_SIZE entries under the keys 1..n, at most
\* MaxOld of them written at time 1 and the others at time 2.
LoadedStores ==
    UNION {
      { [i \in 1..n |-> [key |-> i, result |-> Result("r0"),
                         timestamp |-> IF i \in old THEN 1 ELSE 2]] :
          old \in {o \in SUBSET (1..n) : Cardinality(o) <= MaxOld} } :
      n \in 0..LTM_WINDOW_SIZE }

PutResults == {Result("r1"), Result("r2")}

LtmInit ==
    /\ ltmData \in LoadedStores
    /\ ltmFile = FileOf(ltmData)
    /\ clock = 2
    /\ lastPut = NoPut
    /\ puts = 0
    /\ reqs = <<>>
    /\ head = "1"
    /\ taskA = Undef /\ taskB = Undef
    /\ remoteA = NotCalled /\ remoteB = NotCalled
    /\ sigA = NoSig /\ sigB = NoSig
    /\ sigStep = "none"
    /\ JobsIdle

\* time passes: the clock never runs backwards, and two puts may fall into the
\* same millisecond
LtmTick ==
    /\ puts < MaxPuts
    /\ clock < 2 + MaxPuts
    /\ clock' = clock + 1
    /\ UNCHANGED <<jobVars, rateVars, ltmData, ltmFile, lastPut, puts, sigVars, exeVars, buildVars>>

\* saveToLTM(signature, result, ltmData): a key of the store or the next new one
LtmPut ==
    /\ puts < MaxPuts
    /\ \E k \in Keys(ltmData) \cup {LTM_WINDOW_SIZE + puts + 1},
          r \in PutResults, ok \in BOOLEAN :
          /\ ltmData' = SaveToLTM(k, r, ltmData, clock)
          /\ ltmFile' = WriteLTM(ltmFile, ltmData', ok)
          /\ lastPut' = [sig |-> k, result |-> r, before |-> ltmData,
                         handed |-> ltmData', now |-> clock]
    /\ puts' = puts + 1
    /\ UNCHANGED <<jobVars, rateVars, clock, sigVars, exeVars, buildVars>>

LtmNext == LtmTick \/ LtmPut

SpecLTM == LtmInit /\ [][LtmNext]_vars

\* C7: after saveToLTM(sig, R, store), findInLTM(sig, store) returns R.
C7_PutThenGet ==
    puts > 0 => FindInLTM(lastPut.sig, ltmData) = lastPut.result

C7_Witness ==
    /\ puts > 0
    /\ Len(lastPut.before) = LTM_WINDOW_SIZE
    /\ lastPut.sig \notin Keys(lastPut.before)
    /\ \E i \in 1..Len(lastPut.before) : lastPut.before[i].timestamp = lastPut.now
    /\ FindInLTM(lastPut.sig, ltmData) = lastPut.result

\* C8: after every saveToLTM the store holds at most LTM_WINDOW_SIZE entries,
\* and so does the content handed to the write.
C8_Bounded ==
    puts > 0 => /\ Len(ltmData) <= LTM_WINDOW_SIZE
                /\ Len(lastPut.handed) <= LTM_WINDOW_SIZE
                /\ Len(ReadLTM(ltmFile)) <= LTM_WINDOW_SIZE

C8_Witness ==
    /\ puts > 0
    /\ Len(lastPut.before) = LTM_WINDOW_SIZE
    /\ lastPut.sig \notin Keys(lastPut.before)
    /\ Len(ltmData) = LTM_WINDOW_SIZE
    /\ ltmFile = FileOf(ltmData)

\* C9: a put of a signature not yet present into a store of exactly
\* LTM_WINDOW_SIZE entries leaves exactly LTM_WINDOW_SIZE entries; one entry of
\* the store is removed, and no entry that stays is older than it.
C9_EvictsOldest ==
    (/\ puts > 0
     /\ Len(lastPut.before) = LTM_WINDOW_SIZE
     /\ lastPut.sig \notin Keys(lastPut.before))
    => /\ Len(ltmData) = LTM_WINDOW_SIZE
       /\ lastPut.sig \in Keys(ltmData)
       /\ Cardinality(Keys(lastPut.before) \ Keys(ltmData)) = 1
       /\ \A gone \in Keys(lastPut.before) \ Keys(ltmData) :
          \A kept \in Keys(lastPut.before) \cap Keys(ltmData) :
             /\ EntryOf(lastPut.before, gone).timestamp
                <= EntryOf(lastPut.before, kept).timestamp
             /\ EntryOf(ltmData, kept) = EntryOf(lastPut.before, kept)

C9_Witness ==
    /\ puts > 0
    /\ Len(lastPut.before) = LTM_WINDOW_SIZE
    /\ lastPut.sig \notin Keys(lastPut.before)
    /\ lastPut.before[1].timestamp = 2
    /\ lastPut.before[5].timestamp = 1
    /\ 5 \notin Keys(ltmData)
    /\ 1 \in Keys(ltmData)

(***************************************************************************)
(* The /execute handler                                                    *)
(***************************************************************************)
MaxReqs == 2

\* the one inline file of the tasks served: its content "ba" is the base64 of
\* the one character "m"
InlineFile == [file_path |-> <<"a", ".", "j", "s">>, content_base64 |-> <<"b", "a">>]

\* The tasks served: inline files, a repository, both of them, and an archive
\* sent along with inline files.
ExecTasks ==
    {[language |-> Undef, search_patterns |-> Undef, zip_file_base64 |-> v[1],
      code_files_base64 |-> v[3], git_repo_url |-> v[2],
      existing_documentation |-> Undef] :
        v \in {<<Undef, Undef, <<InlineFile>>>>,
                <<Undef, Str(<<"u">>), <<>>>>,
                <<Undef, Str(<<"u">>), <<InlineFile>>>>,
                <<Str(<<"z">>), Undef, <<InlineFile>>>>}}

\* Buffer.from(s, 'base64').toString('utf-8') on the contents used here: one
\* base64 character carries six bits and decodes to no byte, "ba" to 0x6d.
Base64Decode(s) ==
    CASE s = <<"b", "a">> -> <<"m">>
      [] OTHER -> <<>>

\* which branch of the if / else-if chain of /execute obtains the files
ExecuteMode(taskData) ==
    IF Truthy(taskData.zip_file_base64) THEN "zip"
    ELSE IF Truthy(taskData.git_repo_url) THEN "git"
    ELSE IF Len(taskData.code_files_base64) > 0 THEN "files"
    ELSE "none"

\* the inline files as work items
InlineItems(files) ==
    [i \in 1..Len(files) |->
        [file_path |-> files[i].file_path,
         code_snippet |-> Base64Decode(files[i].content_base64)]]

\* What extractFilesFromZip and cloneRepoAndGetFiles may come back with: they
\* throw, or return the matching files of the tree, none or one.  The content
\* of a cloned file is named by the commit that was cloned.
Thrown == [kind |-> "thrown"]
Found(items) == [kind |-> "found", items |-> items]
TreeFile(content) == [file_path |-> <<"a", ".", "j", "s">>, code_snippet |-> content]

DiscoveryOutcomes(taskData, rev) ==
    CASE ExecuteMode(taskData) = "zip" ->
            {Thrown, Found(<<>>), Found(<<TreeFile(<<"z">>)>>)}
      [] ExecuteMode(taskData) = "git" ->
            {Thrown, Found(<<>>), Found(<<TreeFile(<<rev>>)>>)}
      [] ExecuteMode(taskData) = "files" ->
            {Found(InlineItems(taskData.code_files_base64))}
      [] OTHER -> {Found(<<>>)}

\* What callGeminiAPI may do for one file: throw, or return the endpoints it
\* found, none or one.
WorkerOutcomes == {"error", "none", "one"}

EndpointsOf(outcome) ==
    IF outcome = "one" THEN <<[path |-> "/x", method |-> "get"]>> ELSE <<>>

\* !file.code_snippet || file.code_snippet.trim() === ""
EmptySnippet(item) == item.code_snippet = <<>>

\* detectLanguage for a task without a language hint whose first file ends
\* in .js
DetectedLanguage == <<"javascript">>

\* The entry pushed to file_by_file_results for one item of a batch: a file
\* without content gives no result object and is listed as "Unknown", a failed
\* call is listed under its path, both without language_detected.
FileResult(item, outcome) ==
    IF EmptySnippet(item) THEN
        [file_path |-> <<"Unknown">>, endpoints_found |-> 0, documentation |-> <<>>]
    ELSE IF outcome = "error" THEN
        [file_path |-> item.file_path, endpoints_found |-> 0, documentation |-> <<>>]
    ELSE
        [file_path |-> item.file_path, language_detected |-> DetectedLanguage,
         endpoints_found |-> Len(EndpointsOf(outcome)),
         documentation |-> EndpointsOf(outcome)]

RECURSIVE SumFound(_)
SumFound(rs) == IF rs = <<>> THEN 0 ELSE Head(rs).endpoints_found + SumFound(Tail(rs))

\* the (path, method) pairs the merged document holds after the loop
MergedPaths(rs) ==
    UNION {{<<rs[i].documentation[j].path, rs[i].documentation[j].method>> :
               j \in 1..Len(rs[i].documentation)} : i \in 1..Len(rs)}

\* createSuccessResponse(...)["results/task"]
TaskResult(message, mergedDoc, fileResults, endpointCount) ==
    [status_message |-> message,
     endpoints_found |-> endpointCount,
     file_by_file_results |-> fileResults,
     merged_documentation |-> mergedDoc,
     ltm_hit |-> FALSE]

\* createSuccessResponseFromCache(...)["results/task"]
CachedTaskResult(cached) ==
    [cached EXCEPT !.status_message = <<"[LTM HIT] ">> \o @, !.ltm_hit = TRUE]

Completed(payload) == [status |-> "completed", task |-> payload]

\* NoFilesResult done wrong: the message of a processed job
NoFilesResultAsProcessed == TaskResult(<<"Processed ", 0, " endpoints.">>, {}, <<>>, 0)

\* createSuccessResponse(id, "No files found.", {}, {}, 0)["results/task"]
NoFilesResult == TaskResult(<<"No files found.">>, {}, <<>>, 0)
\* createErrorResponse done wrong: the document goes along
FailedWithDocument(message) ==
    [status |-> "failed",
     task |-> [status_message |-> <<"Internal Error">>, error_details |-> message,
               merged_documentation |-> EmptyObject]]

Failed(message) == [status |-> "failed",
                    task |-> [status_message |-> <<"Internal Error">>,
                              error_details |-> message]]
NoResponse == [status |-> "none"]

IdleReq ==
    [pc |-> "idle", task |-> Undef, ltm |-> <<>>, sig |-> NoSig, remote |-> NotCalled,
     cloned |-> "none", items |-> <<>>, response |-> NoResponse,
     discoveries |-> 0, workerCalls |-> 0, after |-> {}, wrote |-> "none",
     found |-> "none"]

\* the lookup of the commit hash made now: it fails, or reports the HEAD
RemoteNow(taskData) ==
    IF SignatureMode(taskData) = "git"
    THEN {Threw, Returned(<<>>), Returned(<<head, TAB, "H", "E", "A", "D">>)}
    ELSE {NotCalled}

Init ==
    /\ reqs = [r \in 1..MaxReqs |-> IdleReq]
    /\ head = "1"
    /\ ltmFile = NoFile
    /\ clock = 2
    /\ ltmData = <<>>
    /\ lastPut = NoPut
    /\ puts = 0
    /\ taskA = Undef /\ taskB = Undef
    /\ remoteA = NotCalled /\ remoteB = NotCalled
    /\ sigA = NoSig /\ sigB = NoSig
    /\ sigStep = "none"
    /\ JobsIdle

\* taskSignature = await generateTaskSignature(taskData), then the probe of
\* the store read before: a hit is answered at once
Signed(q, out) ==
    LET sig == GenerateTaskSignature(q.task, out)
        cachedResult == FindInLTM(sig, q.ltm)
    IN IF cachedResult # Null
       THEN [q EXCEPT !.pc = "done", !.sig = sig, !.ltm = <<>>,
                      !.response = Completed(CachedTaskResult(cachedResult))]
       ELSE [q EXCEPT !.pc = "discover", !.sig = sig, !.remote = out]

\* Discovered done wrong: a throw is taken for a source without files
DiscoveredSwallowingThrow(q, d, rev) ==
    LET q1 == [q EXCEPT !.discoveries = @ + 1]
    IN IF d.kind = "thrown" \/ d.items = <<>>
       THEN [q1 EXCEPT !.pc = "done", !.ltm = <<>>, !.remote = NotCalled,
                       !.cloned = "none",
                       !.found = IF d.kind = "thrown" THEN "thrown" ELSE "empty",
                       !.response = Completed(NoFilesResult)]
       ELSE [q1 EXCEPT !.pc = "process", !.found = "files", !.items = d.items,
                       !.cloned = IF ExecuteMode(q.task) = "git" THEN rev ELSE "none"]

\* the files are obtained (zip, else git, else inline files); a throw ends the
\* request with the error response, no file with "No files found."
Discovered(q, d, rev) ==
    LET q1 == [q EXCEPT !.discoveries = @ + 1,
                        !.cloned = IF ExecuteMode(q.task) = "git" /\ d.kind = "found"
                                   THEN rev ELSE "none"]
    IN IF d.kind = "thrown"
       THEN [q1 EXCEPT !.pc = "done", !.ltm = <<>>, !.remote = NotCalled,
                       !.cloned = "none", !.found = "thrown",
                       !.response = Failed(<<"discovery">>)]
       ELSE IF d.items = <<>>
       THEN [q1 EXCEPT !.pc = "done", !.ltm = <<>>, !.remote = NotCalled,
                       !.cloned = "none", !.found = "empty",
                       !.response = Completed(NoFilesResult)]
       ELSE [q1 EXCEPT !.pc = "process", !.found = "files", !.items = d.items]

\* the handler waits for no input or output between the signature and the
\* files when the files are the inline ones
DiscoversInline(q) == q.pc = "discover" /\ ExecuteMode(q.task) \in {"files", "none"}

InlineDiscovered(q) ==
    IF DiscoversInline(q)
    THEN Discovered(q, Found(InlineItems(q.task.code_files_base64)), "none")
    ELSE q

\* A task_assignment message arrives and ltmData = await readLTM() completes.
\* Unless the signature needs the remote lookup, the handler runs on without
\* waiting: signature, probe and, for inline files, the work items.  Requests
\* are numbered in arrival order.  The locals of a handler that has responded
\* (ltmData, the commit hash, the files) are dropped with it.
Receive(r) ==
    /\ reqs[r].pc = "idle"
    /\ \A q \in 1..(r - 1) : reqs[q].pc # "idle"
    /\ \E t \in ExecTasks :
          LET q0 == [reqs[r] EXCEPT !.pc = "sign", !.task = t,
                                    !.ltm = ReadLTM(ltmFile),
                                    !.after = {q \in 1..MaxReqs : reqs[q].pc = "done"}]
          IN reqs' = [reqs EXCEPT ![r] =
                 IF SignatureMode(t) = "git" THEN q0
                 ELSE InlineDiscovered(Signed(q0, NotCalled))]
    /\ UNCHANGED <<jobVars, rateVars, head, sigVars, ltmVars, buildVars>>

\* the remote lookup of generateTaskSignature returns or throws
Sign(r) ==
    /\ reqs[r].pc = "sign"
    /\ \E out \in RemoteNow(reqs[r].task) :
          reqs' = [reqs EXCEPT ![r] = InlineDiscovered(Signed(reqs[r], out))]
    /\ UNCHANGED <<jobVars, rateVars, head, sigVars, ltmVars, buildVars>>

\* extractFilesFromZip or cloneRepoAndGetFiles returns or throws
Discover(r) ==
    /\ reqs[r].pc = "discover"
    /\ \E d \in DiscoveryOutcomes(reqs[r].task, head) :
          reqs' = [reqs EXCEPT ![r] = Discovered(reqs[r], d, head)]
    /\ UNCHANGED <<jobVars, rateVars, head, sigVars, ltmVars, buildVars>>

\* The batch loop, which touches only locals of the request: every file with
\* content is sent to the worker and the outcomes are merged in item order.
\* Then await saveToLTM(taskSignature, successResponse["results/task"],
\* ltmData), and the response.
Finish(r) ==
    /\ reqs[r].pc = "process"
    /\ \E outs \in [1..Len(reqs[r].items) -> WorkerOutcomes], ok \in BOOLEAN :
          LET items == reqs[r].items
              fileResults == [i \in 1..Len(items) |-> FileResult(items[i], outs[i])]
              total == SumFound(fileResults)
              result == TaskResult(<<"Processed ", total, " endpoints.">>,
                                   MergedPaths(fileResults), fileResults, total)
              after == SaveToLTM(reqs[r].sig, result, reqs[r].ltm, clock)
          IN /\ ltmFile' = WriteLTM(ltmFile, after, ok)
             /\ reqs' = [reqs EXCEPT ![r] =
                    [@ EXCEPT !.pc = "done", !.ltm = <<>>, !.items = <<>>,
                              !.cloned = "none", !.remote = NotCalled,
                              !.workerCalls = @ + Cardinality(
                                  {i \in 1..Len(items) : ~EmptySnippet(items[i])}),
                              !.wrote = IF ok THEN "written" ELSE "failed",
                              !.response = Completed(result)]]
    /\ UNCHANGED <<jobVars, rateVars, head, sigVars, ltmData, clock, lastPut, puts, buildVars>>

\* a commit is pushed to the remote repository
Push ==
    /\ head = "1"
    /\ head' = "2"
    /\ UNCHANGED <<jobVars, rateVars, reqs, sigVars, ltmVars, buildVars>>

Next ==
    \/ \E r \in 1..MaxReqs : Receive(r)
    \/ \E r \in 1..MaxReqs : Sign(r)
    \/ \E r \in 1..MaxReqs : Discover(r)
    \/ \E r \in 1..MaxReqs : Finish(r)
    \/ Push

Spec == Init /\ [][Next]_vars

(***************************************************************************)
(* SpecSig: generateTaskSignature called on two task descriptions          *)
(***************************************************************************)
Orderings(n) == {p \in [1..n -> 1..n] : \A i, j \in 1..n : p[i] = p[j] => i = j}

SigInit ==
    /\ taskA \in Tasks
    /\ taskB = taskA
    /\ remoteA = NotCalled
    /\ remoteB = NotCalled
    /\ sigA = NoSig
    /\ sigB = NoSig
    /\ sigStep = "new"
    /\ JobsIdle
    /\ reqs = <<>>
    /\ head = "1"
    /\ ltmData = <<>>
    /\ ltmFile = NoFile
    /\ clock = 0
    /\ lastPut = NoPut
    /\ puts = 0

SignBoth(tB, rA, rB, step) ==
    /\ taskB' = tB
    /\ remoteA' = rA
    /\ remoteB' = rB
    /\ sigA' = GenerateTaskSignature(taskA, rA)
    /\ sigB' = GenerateTaskSignature(tB, rB)
    /\ sigStep' = step
    /\ UNCHANGED <<jobVars, rateVars, taskA, ltmVars, exeVars, buildVars>>

\* the same files presented in another order
SigReorder ==
    /\ sigStep = "new"
    /\ \E p \in Orderings(Len(taskA.code_files_base64)) :
       \E r \in RemoteFor(taskA) :
          SignBoth([taskA EXCEPT !.code_files_base64 =
                        [i \in 1..Len(taskA.code_files_base64) |->
                            taskA.code_files_base64[p[i]]]],
                   r, r, "reordered")

\* the same task description signed twice; each call makes its own lookup
SigResubmit ==
    /\ sigStep = "new"
    /\ \E rA \in RemoteFor(taskA), rB \in RemoteFor(taskA) :
          SignBoth(taskA, rA, rB, "resubmitted")

\* a task description that differs from the first in one field, or in one file
\* of its list (replaced, added or removed)
OneFieldVariants(t) ==
    {[t EXCEPT !.language = v] : v \in LanguageValues}
    \cup {[t EXCEPT !.search_patterns = v] : v \in PatternValues}
    \cup {[t EXCEPT !.zip_file_base64 = v] : v \in ZipValues}
    \cup {[t EXCEPT !.git_repo_url = v] : v \in UrlValues}
    \cup {[t EXCEPT !.existing_documentation = v] : v \in DocValues}
    \cup {[t EXCEPT !.code_files_base64[i] = e] :
              i \in 1..Len(t.code_files_base64), e \in FileEntries}
    \cup {[t EXCEPT !.code_files_base64 = Append(@, e)] :
              e \in {x \in FileEntries : Len(t.code_files_base64) < MaxFiles}}
    \cup {[t EXCEPT !.code_files_base64 = SubSeq(@, 1, Len(@) - 1)] :
              k \in {x \in {1} : Len(t.code_files_base64) > 0}}

SigVary ==
    /\ sigStep = "new"
    /\ \E tB \in OneFieldVariants(taskA) \ {taskA} :
       \E rA \in RemoteFor(taskA), rB \in RemoteFor(tB) :
          /\ (SignatureMode(taskA) = "git" /\ SignatureMode(tB) = "git") => rA = rB
          /\ SignBoth(tB, rA, rB, "varied")

SigNext == SigReorder \/ SigResubmit \/ SigVary

SpecSig == SigInit /\ [][SigNext]_vars

(***************************************************************************)
(* Properties of generateTaskSignature (SpecSig)                           *)
(***************************************************************************)
Sentinel == <<"H", "E", "A", "D">>

\* the file paths of a list are pairwise different strings
PathsUnique(files) ==
    \A i, j \in 1..Len(files) : files[i].file_path = files[j].file_path => i = j

\* the same {file_path, content_base64} pairs, each as often, in any order
SamePairs(fs, gs) ==
    /\ Len(fs) = Len(gs)
    /\ \A e \in FileEntries :
          Cardinality({i \in 1..Len(fs) : fs[i] = e})
          = Cardinality({i \in 1..Len(gs) : gs[i] = e})

\* structurally equal task descriptions: every field equal, the file lists up
\* to the order of presentation
StructurallyEqual(tA, tB) ==
    /\ tA.language = tB.language
    /\ tA.search_patterns = tB.search_patterns
    /\ tA.zip_file_base64 = tB.zip_file_base64
    /\ tA.git_repo_url = tB.git_repo_url
    /\ tA.existing_documentation = tB.existing_documentation
    /\ SamePairs(tA.code_files_base64, tB.code_files_base64)

\* exactly one of the three source variants is populated
OneVariant(t) ==
    Cardinality({v \in {"zip", "files", "git"} :
        \/ v = "zip" /\ Truthy(t.zip_file_base64)
        \/ v = "files" /\ Len(t.code_files_base64) > 0
        \/ v = "git" /\ Truthy(t.git_repo_url)}) = 1

\* C1 (the claim as stated, for lists of pairwise different paths): two
\* InlineFiles tasks that hold the same {file_path, content_base64} pairs in a
\* different order, all else equal, get the same signature.
C1_OrderIndependent ==
    (/\ sigStep = "reordered"
     /\ SignatureMode(taskA) = "files"
     /\ PathsUnique(taskA.code_files_base64))
    => sigA = sigB

\* C2 (the claim as stated): two structurally equal task descriptions of any
\* source variant get identical signatures, for a repository reference
\* whenever the remote lookup has the same outcome on both calls.
C2_Deterministic ==
    (/\ sigStep \in {"reordered", "resubmitted"}
     /\ StructurallyEqual(taskA, taskB)
     /\ PathsUnique(taskA.code_files_base64)
     /\ remoteA = remoteB)
    => sigA = sigB

\* C3 (the claim as stated): two task descriptions with one source variant each
\* that differ in a file path or content, the language hint, the search
\* patterns or the prior document feed different bytes to the digest (the
\* repository revision being the same on both calls).
C3_Distinct ==
    (/\ sigStep = "varied"
     /\ OneVariant(taskA)
     /\ OneVariant(taskB)
     /\ taskA # taskB)
    => SignatureBytes(taskA, remoteA) # SignatureBytes(taskB, remoteB)

\* the remote lookup returned a revision
Resolved(remote) == remote.kind = "returns" /\ UpToTab(remote.text) # <<>>

\* C4: for a task signed as a repository reference, two calls with equal
\* fields whose lookups return different HEAD revisions for the same URL
\* return different signatures.
C4_RevisionInSignature ==
    (/\ sigStep = "resubmitted"
     /\ SignatureMode(taskA) = "git"
     /\ Resolved(remoteA)
     /\ Resolved(remoteB)
     /\ UpToTab(remoteA.text) # UpToTab(remoteB.text))
    => sigA # sigB

C4_Witness ==
    /\ sigStep = "resubmitted"
    /\ taskA = taskB
    /\ SignatureMode(taskA) = "git"
    /\ taskA.git_repo_url = Str(<<"u">>)
    /\ remoteA = Returned(<<"1", TAB, "H", "E", "A", "D">>)
    /\ remoteB = Returned(<<"2", TAB, "H", "E", "A", "D">>)
    /\ sigA # sigB

(***************************************************************************)
(* Properties of the /execute handler (Spec)                               *)
(***************************************************************************)
\* the remote lookup of request q threw or returned nothing
LookupFailed(q) == q.remote \in {Threw, Returned(<<>>)}

\* C5: when the remote lookup throws or returns nothing, the signature is the
\* one of the revision 'HEAD', and the request goes on, unanswered, to the
\* discovery of its files and to the batch loop.
C5_SentinelOnFailure ==
    \A r \in 1..MaxReqs :
        LookupFailed(reqs[r]) =>
            /\ reqs[r].sig = GenerateTaskSignature(reqs[r].task, Returned(Sentinel))
            /\ reqs[r].pc \in {"discover", "process"}
            /\ reqs[r].response = NoResponse

C5_Witness ==
    \E r1, r2 \in 1..MaxReqs :
        /\ reqs[r1].remote = Threw
        /\ reqs[r2].remote = Returned(<<>>)
        /\ reqs[r1].pc = "process"
        /\ reqs[r2].pc = "process"
        /\ reqs[r1].sig = reqs[r2].sig
        /\ reqs[r1].sig # NoSig

\* C6 (the claim as stated): the variant that generateTaskSignature
\* fingerprints is the variant from which /execute obtains the files.
C6_SinglePrecedence ==
    \A r \in 1..MaxReqs :
        reqs[r].discoveries > 0 => SignatureMode(reqs[r].task) = ExecuteMode(reqs[r].task)

\* request q was answered with the result of processing a non-empty file set
Processed(q) ==
    /\ q.pc = "done"
    /\ q.response.status = "completed"
    /\ ~q.response.task.ltm_hit
    /\ q.response.task.file_by_file_results # <<>>

\* C10 (the claim as stated): a request that arrives after a request for the
\* same task, with the same signature, was answered from a non-empty file set
\* is answered as a cache hit with the same merged_documentation,
\* endpoints_found and file_by_file_results, without discovery or worker call.
C10_SecondIsHit ==
    \A r1, r2 \in 1..MaxReqs :
        (/\ reqs[r2].pc = "done"
         /\ r1 \in reqs[r2].after
         /\ reqs[r1].task = reqs[r2].task
         /\ reqs[r1].sig = reqs[r2].sig
         /\ Processed(reqs[r1]))
        => /\ reqs[r2].response.status = "completed"
           /\ reqs[r2].response.task.ltm_hit
           /\ reqs[r2].response.task.merged_documentation
                 = reqs[r1].response.task.merged_documentation
           /\ reqs[r2].response.task.endpoints_found
                 = reqs[r1].response.task.endpoints_found
           /\ reqs[r2].response.task.file_by_file_results
                 = reqs[r1].response.task.file_by_file_results
           /\ reqs[r2].discoveries = 0
           /\ reqs[r2].workerCalls = 0

(***************************************************************************)
(* The merge of the worker's replies into the document                     *)
(***************************************************************************)
\* a JavaScript number; an object taken as the map of its own properties,
\* where their order plays no part
Num(n) == [kind |-> "number", value |-> n]
ObjMap(m) == [kind |-> "object", map |-> m]

GetPath == <<"/", "x">>
PostPath == <<"/", "y">>

\* String.prototype.toLowerCase, on strings of ASCII characters: every
\* capital letter becomes the small one
CapitalLetters ==
    <<"A", "B", "C", "D", "E", "F", "G", "H", "I", "J", "K", "L", "M",
      "N", "O", "P", "Q", "R", "S", "T", "U", "V", "W", "X", "Y", "Z">>

SmallLetters ==
    <<"a", "b", "c", "d", "e", "f", "g", "h", "i", "j", "k", "l", "m",
      "n", "o", "p", "q", "r", "s", "t", "u", "v", "w", "x", "y", "z">>

LowerChar(c) ==
    IF \E i \in 1..Len(CapitalLetters) : CapitalLetters[i] = c
    THEN SmallLetters[CHOOSE i \in 1..Len(CapitalLetters) : CapitalLetters[i] = c]
    ELSE c

ToLowerCase(m) == [i \in 1..Len(m) |-> LowerChar(m[i])]

\* The endpoint objects a reply of the worker may hold: path and method are
\* strings, absent, or (the method) a number; the summary and the request body
\* schema, a JSON text, may be absent.
Endpoint(p, m, s, b) ==
    [path |-> p, method |-> m, summary |-> s, requestBodySchema |-> b,
     successResponseSchema |-> Undef, errorResponses |-> Undef]

Endpoints ==
    {Endpoint(Str(GetPath), Str(<<"g", "e", "t">>), Str(<<"S", "1">>), Str(<<"{", "}">>)),
     Endpoint(Str(GetPath), Str(<<"G", "E", "T">>), Str(<<"S", "2">>), Undef),
     Endpoint(Str(PostPath), Str(<<"P", "O", "S", "T">>), Undef, Undef),
     Endpoint(Undef, Str(<<"g", "e", "t">>), Str(<<"S", "3">>), Undef),
     Endpoint(Str(GetPath), Num(1), Str(<<"S", "4">>), Undef)}

\* buildOpenApiEndpoint throws on an endpoint whose method is not a string:
\* method.toLowerCase is not a function
BuildThrows(endpoint) == endpoint.method.kind # "string"

\* Skipped done wrong: only the path is looked at
SkippedByPathOnly(endpoint) == ~Truthy(endpoint.path)

\* if (!apiPath || !method) continue
Skipped(endpoint) == ~Truthy(endpoint.path) \/ ~Truthy(endpoint.method)

\* The texts a schema field may hold, and what JSON.parse makes of each: an
\* object without and with a member, a string, an array, null, zero; any
\* other text is a syntax error.
SyntaxError == [kind |-> "syntax error"]

EmptyObjectText == <<"{", "}">>
ObjectText == <<"{", "\"", "a", "\"", ":", "1", "}">>
StringText == <<"\"", "a", "b", "\"">>
ArrayText == <<"[", "1", "]">>
NullText == <<"n", "u", "l", "l">>
ZeroText == <<"0">>
BrokenText == <<"{">>

JSONParse(text) ==
    CASE text = EmptyObjectText -> ObjMap(EmptyObject)
      [] text = ObjectText -> ObjMap([a |-> Num(1)])
      [] text = StringText -> Str(<<"a", "b">>)
      [] text = ArrayText -> Arr(<<Num(1)>>)
      [] text = NullText -> Null
      [] text = ZeroText -> Num(0)
      [] OTHER -> SyntaxError

\* let x = null; try { if (text) x = JSON.parse(text); } catch (e) {}
ParsedOrNull(text) ==
    IF ~Truthy(text) \/ JSONParse(text.chars) = SyntaxError THEN Null
    ELSE JSONParse(text.chars)

\* Object.keys(value): the own enumerable property names
ObjectKeys(value) ==
    CASE value.kind = "object" -> DOMAIN value.map
      [] value.kind = "string" -> 1..Len(value.chars)
      [] value.kind = "array" -> 1..Len(value.items)
      [] OTHER -> {}

\* err.code, err.description: the member of an object, undefined where the
\* value has no such member
Member(value, name) ==
    IF value.kind = "object" /\ name \in DOMAIN value.map THEN value.map[name]
    ELSE Undef

\* responses[err.code]: the property key a code stands for, String(code)
PropertyKey(code) ==
    CASE code = Str(<<"2", "0", "0">>) -> "200"
      [] code = Str(<<"2", "0", "1">>) -> "201"
      [] code = Str(<<"4", "0", "4">>) -> "404"
      [] code = Num(200) -> "200"
      [] code = Num(201) -> "201"
      [] code = Num(404) -> "404"

\* what the loop over an array or a string goes through: the items, the
\* characters
ItemsOf(value) ==
    CASE value.kind = "array" -> value.items
      [] value.kind = "string" -> [i \in 1..Len(value.chars) |-> Str(<<value.chars[i]>>)]

\* if (err.code) responses[err.code] = { description: err.description },
\* for the entries from the k-th on
RECURSIVE AddErrorResponses(_, _, _)
AddErrorResponses(responses, errs, k) ==
    IF k > Len(errs) THEN responses
    ELSE IF ~Truthy(Member(errs[k], "code"))
    THEN AddErrorResponses(responses, errs, k + 1)
    ELSE AddErrorResponses(
             (PropertyKey(Member(errs[k], "code"))
                 :> [description |-> Member(errs[k], "description")]) @@ responses,
             errs, k + 1)

\* the success response of app.js
SuccessResponse(endpoint) ==
    [description |-> Str(<<"S", "u", "c", "c", "e", "s", "s">>),
     schema |-> OrElse(ParsedOrNull(endpoint.successResponseSchema),
                       ObjMap([type |-> Str(<<"o", "b", "j", "e", "c", "t">>)]))]

\* buildOpenApiEndpoint: a new object with the summary or its default, the
\* success response under 201 for post and 200 otherwise, the error responses
\* of an array under their codes, and the request body when the schema given
\* parses to a truthy value
BuildOpenApiEndpoint(endpoint) ==
    LET reqSchema == ParsedOrNull(endpoint.requestBodySchema)
        successCode == IF ToLowerCase(endpoint.method.chars) = <<"p", "o", "s", "t">>
                       THEN "201" ELSE "200"
        success == successCode :> SuccessResponse(endpoint)
        fixed == [summary |-> OrElse(endpoint.summary, Str(<<"No summary">>)),
                  responses |-> IF endpoint.errorResponses.kind = "array"
                                THEN AddErrorResponses(success,
                                         endpoint.errorResponses.items, 1)
                                ELSE success]
    IN IF Truthy(reqSchema)
       THEN fixed @@ [requestBody |-> reqSchema]
       ELSE fixed

\* if (!documentation.paths[apiPath]) documentation.paths[apiPath] = {};
\* documentation.paths[apiPath][method.toLowerCase()] = openApiEndpoint
SetPath(paths, apiPath, method, openApiEndpoint) ==
    LET old == IF apiPath \in DOMAIN paths THEN paths[apiPath] ELSE EmptyObject
        new == (ToLowerCase(method) :> openApiEndpoint) @@ old
    IN (apiPath :> new) @@ paths

\* The loop over the endpoints of one reply, from the k-th on: the document
\* after it, and whether buildOpenApiEndpoint threw on the way.
RECURSIVE MergeEndpoints(_, _, _)
MergeEndpoints(paths, endpoints, k) ==
    IF k > Len(endpoints) THEN [paths |-> paths, threw |-> FALSE]
    ELSE IF Skipped(endpoints[k]) THEN MergeEndpoints(paths, endpoints, k + 1)
    ELSE IF BuildThrows(endpoints[k]) THEN [paths |-> paths, threw |-> TRUE]
    ELSE MergeEndpoints(
             SetPath(paths, endpoints[k].path.chars, endpoints[k].method.chars,
                     BuildOpenApiEndpoint(endpoints[k])),
             endpoints, k + 1)

\* The documents a task may bring as existing_documentation: none, one
\* without paths, one that holds /x under get, one that holds it under GET.
OldDescription == [summary |-> Str(<<"S", "0">>), responses |-> {"200", "404"}]

ExistingDocs ==
    {Undef,
     ObjMap([info |-> "mine"]),
     ObjMap([info |-> "mine", paths |-> (GetPath :> (<<"g", "e", "t">> :> OldDescription))]),
     ObjMap([info |-> "mine", paths |-> (GetPath :> (<<"G", "E", "T">> :> OldDescription))])}

\* BaseDocument done wrong: every job starts from a new document
BaseDocumentAlwaysNew(existing_documentation) ==
    [info |-> "API Docs", paths |-> EmptyObject]

\* documentation = existing_documentation if it is an object, else a new
\* document; if (!documentation.paths) documentation.paths = {}
BaseDocument(existing_documentation) ==
    LET doc == IF existing_documentation.kind = "object"
               THEN existing_documentation.map
               ELSE [info |-> "API Docs", paths |-> EmptyObject]
    IN IF "paths" \in DOMAIN doc THEN doc ELSE doc @@ [paths |-> EmptyObject]

(***************************************************************************)
(* One job of /execute from the store probe to the response, its files     *)
(* given (SpecJob)                                                         *)
(***************************************************************************)
GEMINI_RPM_LIMIT == 10
ONE_MINUTE_MS == 60000

MaxItems == 2

\* What callGeminiAPI does for one file: it rejects (the key is missing, the
\* service answers with an error status, the text is no JSON), or it resolves
\* with the parsed reply: null, or an object with the endpoints found.
Rejected == [kind |-> "rejected"]
AnsweredNull == [kind |-> "null"]
Answered(endpoints) == [kind |-> "answer", endpoints |-> endpoints]

Replies ==
    {Rejected, AnsweredNull, Answered(<<>>)}
    \cup {Answered(<<e>>) : e \in Endpoints}
    \cup {Answered(<<Endpoint(Str(GetPath), Str(<<"g", "e", "t">>), Str(<<"S", "1">>),
                              Str(<<"{", "}">>)),
                     Endpoint(Str(GetPath), Str(<<"G", "E", "T">>), Str(<<"S", "2">>),
                              Undef)>>),
          Answered(<<Endpoint(Str(<<>>), Str(<<"g", "e", "t">>), Str(<<"S", "5">>), Undef),
                     Endpoint(Str(GetPath), Undef, Str(<<"S", "6">>), Undef),
                     Endpoint(Str(GetPath), Str(<<>>), Str(<<"S", "7">>), Undef),
                     Endpoint(Str(PostPath), Str(<<"P", "O", "S", "T">>), Undef, Undef)>>)}

\* a file of the job, with the reply the worker has for it
WorkItem(path, snippet, reply) ==
    [file_path |-> path, code_snippet |-> snippet, reply |-> reply]

KnownPath == <<"a", ".", "j", "s">>
UnknownPath == <<"a">>

\* a code_snippet of white space only
WhiteSnippet == <<" ", "\n">>

\* the files of a job: up to MaxItems files, the first with or without a known
\* extension, each without content, with white space for content, or with
\* content and any reply; and two lists longer than a batch
ShortItemLists ==
    {<<>>} \cup
    UNION {{[i \in 1..n |-> WorkItem(IF i = 1 THEN first ELSE KnownPath,
                                     IF rs[i] = Undef THEN <<>>
                                     ELSE IF rs[i] = Str(WhiteSnippet) THEN WhiteSnippet
                                     ELSE <<"c">>,
                                     IF rs[i] \in {Undef, Str(WhiteSnippet)} THEN Rejected
                                     ELSE rs[i])] :
               rs \in [1..n -> Replies \cup {Undef, Str(WhiteSnippet)}],
               first \in {KnownPath, UnknownPath}} :
           n \in 1..MaxItems}

LongItemList ==
    [i \in 1..(GEMINI_RPM_LIMIT + 1) |->
        WorkItem(KnownPath, <<"c">>,
                 Answered(<<Endpoint(Str(PostPath), Str(<<"P", "O", "S", "T">>),
                                     Undef, Undef)>>))]

\* a list longer than a batch whose files differ: the call for the first is
\* rejected, the second is white space, the others yield one endpoint each
FileLetters == <<"a", "b", "c", "d", "e", "f", "g", "h", "i", "j", "k">>

MixedLongItemList ==
    [i \in 1..(GEMINI_RPM_LIMIT + 1) |->
        WorkItem(<<FileLetters[i], ".", "j", "s">>,
                 IF i = 2 THEN WhiteSnippet ELSE <<"c">>,
                 IF i <= 2 THEN Rejected
                 ELSE Answered(<<Endpoint(Str(<<"/", FileLetters[i]>>),
                                          Str(<<"g", "e", "t">>), Undef, Undef)>>))]

\* the signature of the job's task, a key as in LoadedStores
JobSignature == LTM_WINDOW_SIZE + 1

\* what detectLanguage comes to: a language, or a throw
Language(l) == [kind |-> "language", name |-> l]

\* detectLanguage: the hint if there is one; 'javascript' without files; the
\* language of the first file's extension; else the service is asked, which
\* throws without a key or when the request fails, and else names a language
\* or leaves 'javascript'
DetectLanguage(language, filesToProcess, key) ==
    IF Truthy(language) THEN {Language(language.chars)}
    ELSE IF filesToProcess = <<>> THEN {Language(<<"javascript">>)}
    ELSE IF filesToProcess[1].file_path = KnownPath THEN {Language(<<"javascript">>)}
    ELSE IF ~key THEN {Thrown}
    ELSE {Thrown, Language(<<"javascript">>), Language(<<"python">>)}

\* the result of a processed job already in the store
StoredPayload ==
    TaskResult(<<"Processed ", 0, " endpoints.">>,
               [info |-> "API Docs", paths |-> EmptyObject], <<>>, 0)

\* the files LTM/memory.json may be when the job arrives: missing, not JSON,
\* or the text of a store: one holding the job's signature, or a full one
Garbage == [kind |-> "garbage"]

JobFiles ==
    {NoFile, Garbage,
     FileOf(<<[key |-> JobSignature, result |-> StoredPayload, timestamp |-> 1]>>),
     FileOf([i \in 1..LTM_WINDOW_SIZE |->
                [key |-> i, result |-> StoredPayload, timestamp |-> 1]])}

\* String.prototype.trim: the white space at both ends is taken off
WhiteSpace == {" ", "\t", "\n"}

RECURSIVE TrimStart(_)
TrimStart(s) ==
    IF s # <<>> /\ s[1] \in WhiteSpace THEN TrimStart(Tail(s)) ELSE s

RECURSIVE TrimEnd(_)
TrimEnd(s) ==
    IF s # <<>> /\ s[Len(s)] \in WhiteSpace THEN TrimEnd(SubSeq(s, 1, Len(s) - 1)) ELSE s

Trim(s) == TrimEnd(TrimStart(s))

\* Blank done wrong: the snippet is not trimmed
BlankWithoutTrim(item) == item.code_snippet = <<>>

\* !file.code_snippet || file.code_snippet.trim() === ""
Blank(item) == item.code_snippet = <<>> \/ Trim(item.code_snippet) = <<>>

\* err.message of a rejected call
ErrorMessage(key) ==
    IF key THEN <<"Gemini: 500">> ELSE <<"GEMINI_API_KEY missing">>

\* The entry Promise.all holds for a file once its promise settled: null for a
\* file without content, else the file with the reply, or with the error when
\* the call rejected (which it does whatever the service has, without a key).
Settled(item, key) ==
    IF Blank(item) THEN [status |-> "null"]
    ELSE IF ~key \/ item.reply = Rejected
    THEN [status |-> "error", file |-> item, aiResponse |-> AnsweredNull,
          error |-> ErrorMessage(key)]
    ELSE [status |-> "success", file |-> item, aiResponse |-> item.reply]

\* ResultSlot done wrong: the entries are kept in the order of settling
ResultSlotInSettleOrder(k, batchResults) == Cardinality(DOMAIN batchResults) + 1

\* Promise.all keeps the entry of the k-th promise in the k-th place, whenever
\* it settles
ResultSlot(k, batchResults) == k

\* Unusable done wrong: only the files without content are passed over
UnusableOnlyNull(result) == result.status = "null"

\* if (!result || result.status === 'error' || !result.aiResponse)
Unusable(result) ==
    result.status # "success" \/ result.aiResponse = AnsweredNull

\* The loop over batchResults from the k-th entry on, on the locals
\* documentation, file_by_file_results and totalEndpointsFound (and whether
\* the loop was left by a throw).
RECURSIVE ApplyResults(_, _, _, _)
ApplyResults(locals, batchResults, k, detectedLanguage) ==
    IF k > Cardinality(DOMAIN batchResults) \/ locals.threw THEN locals
    ELSE IF Unusable(batchResults[k])
    THEN ApplyResults(
             [locals EXCEPT !.results = Append(@,
                 [file_path |-> IF batchResults[k].status = "null" THEN <<"Unknown">>
                                ELSE batchResults[k].file.file_path,
                  endpoints_found |-> 0, documentation |-> <<>>])],
             batchResults, k + 1, detectedLanguage)
    ELSE IF batchResults[k].aiResponse = AnsweredNull
    \* aiResponse.endpoints of null throws
    THEN [locals EXCEPT !.threw = TRUE]
    ELSE LET endpoints == batchResults[k].aiResponse.endpoints
             merged == MergeEndpoints(locals.doc.paths, endpoints, 1)
         IN ApplyResults(
                [doc |-> [locals.doc EXCEPT !.paths = merged.paths],
                 results |-> Append(locals.results,
                     [file_path |-> batchResults[k].file.file_path,
                      language_detected |-> detectedLanguage,
                      endpoints_found |-> Len(endpoints),
                      documentation |-> endpoints]),
                 total |-> IF merged.threw THEN locals.total
                           ELSE locals.total + Len(endpoints),
                 threw |-> merged.threw],
                batchResults, k + 1, detectedLanguage)

\* BatchOf done wrong: the slice has no end
BatchOfWholeRest(items, done) == SubSeq(items, done + 1, Len(items))

\* the files of the batch that starts after `done` files
BatchOf(items, done) ==
    SubSeq(items, done + 1,
           IF done + GEMINI_RPM_LIMIT < Len(items) THEN done + GEMINI_RPM_LIMIT
           ELSE Len(items))

\* InvokedOfBatch done wrong: no call is made after one that will fail
InvokedUntilFailure(items, done) ==
    LET Reached(i) ==
            /\ ~Blank(items[i])
            /\ \A n \in (done + 1)..(i - 1) : Blank(items[n]) \/ items[n].reply # Rejected
    IN SelectSeq([k \in 1..Len(BatchOf(items, done)) |-> done + k], Reached)

\* the places, in the list, of the files of a batch that callGeminiAPI is
\* called for, in the order of the calls: batch.map calls it for every file
\* with content, one after the other, before any call settles
InvokedOfBatch(items, done) ==
    LET HasContent(i) == ~Blank(items[i])
    IN SelectSeq([k \in 1..Len(BatchOf(items, done)) |-> done + k], HasContent)

\* batch.map(...): a promise per file of the batch, a call to the worker for
\* every file with content (batches and invoked record the batches started
\* and the files the worker was called for)
StartBatch(j, done) ==
    LET batch == BatchOf(j.items, done)
    IN [j EXCEPT !.pc = "batch", !.done = done,
                 !.pending = 1..Len(batch),
                 !.batchResults = EmptyObject,
                 !.calls = @ + Cardinality({k \in 1..Len(batch) : ~Blank(batch[k])}),
                 !.batches = Append(@, [from |-> done + 1, items |-> batch]),
                 !.invoked = @ \o InvokedOfBatch(j.items, done)]

\* MoreBatches done wrong: the last file does not count
MoreBatchesButLast(items, done) == done + GEMINI_RPM_LIMIT + 1 < Len(items)

\* if ((i + GEMINI_RPM_LIMIT) < filesToProcess.length)
MoreBatches(items, done) == done + GEMINI_RPM_LIMIT < Len(items)

\* TimerFired done wrong: the wait is over as soon as it began
TimerFiredAtOnce(timer) == TRUE

\* TimerFired done wrong: the wait never ends
TimerNeverFires(timer) == FALSE

\* await setTimeout(ONE_MINUTE_MS) returns when the timer has run down
TimerFired(timer) == timer = 0

JobInit ==
    /\ \E items \in ShortItemLists \cup {LongItemList, MixedLongItemList},
          existing \in ExistingDocs,
          key \in BOOLEAN,
          language \in {Undef, Str(<<"python">>)} :
          \* without a key no call has a reply
          /\ ~key => \A i \in 1..Len(items) : items[i].reply = Rejected
          \* the first file is of unknown extension only in tasks without hint
          /\ (items # <<>> /\ items[1].file_path = UnknownPath) => language = Undef
          /\ job = [pc |-> "arrived", items |-> items, existing |-> existing,
                 key |-> key, language |-> language,
                 read |-> "none", ltm |-> <<>>, lang |-> <<>>, done |-> 0,
                 pending |-> {}, batchResults |-> EmptyObject,
                 doc |-> EmptyObject, results |-> <<>>, total |-> 0, calls |-> 0,
                 merged |-> FALSE, outOfOrder |-> FALSE, payload |-> Null, handed |-> <<>>,
                 wrote |-> "none", response |-> NoResponse,
                 batches |-> <<>>, invoked |-> <<>>,
                 waits |-> 0, timer |-> 0, waited |-> 0]
    /\ ltmFile \in JobFiles
    \* the file that is no JSON is met by the tasks without hint and document
    /\ ltmFile = Garbage => (job.language = Undef /\ job.existing = Undef)
    /\ clock = 2
    /\ ltmData = <<>> /\ lastPut = NoPut /\ puts = 0
    /\ reqs = <<>> /\ head = "1"
    /\ taskA = Undef /\ taskB = Undef
    /\ remoteA = NotCalled /\ remoteB = NotCalled
    /\ sigA = NoSig /\ sigB = NoSig
    /\ sigStep = "none"
    /\ rateJobs = <<>> /\ rateNow = 0 /\ rateCalls = <<>>
    /\ build = NoBuild

\* StoreAfterFind done wrong: the lookup refreshes the entry it finds
StoreAfterFindRefreshing(signature, store) ==
    [i \in 1..Len(store) |->
        IF store[i].key = signature THEN [store[i] EXCEPT !.timestamp = @ + 1]
        ELSE store[i]]

\* ltmData once findInLTM(taskSignature, ltmData) has returned: the function
\* reads ltmData[taskSignature]?.result and assigns nothing
StoreAfterFind(signature, store) == store

\* ltmData = await readLTM(), the signature, and the probe of the store: a hit
\* is answered from the store
JobArrive ==
    /\ job.pc = "arrived"
    /\ LET read == ReadLTM(ltmFile)
           cachedResult == FindInLTM(JobSignature, read)
           ltm == StoreAfterFind(JobSignature, read)
       IN job' = IF cachedResult # Null
                 THEN [job EXCEPT !.pc = "done", !.read = ltmFile.kind, !.ltm = ltm,
                                  !.response = Completed(CachedTaskResult(cachedResult))]
                 ELSE [job EXCEPT !.pc = "detect", !.read = ltmFile.kind, !.ltm = ltm]
    /\ UNCHANGED <<sigVars, ltmVars, exeVars, rateVars, buildVars>>

\* await detectLanguage: a throw ends the job with the error response.  Then a
\* job without files is answered "No files found."; else the document is set
\* up and the first batch started.
JobDetect ==
    /\ job.pc = "detect"
    /\ \E d \in DetectLanguage(job.language, job.items, job.key) :
          job' = IF d = Thrown
                 THEN [job EXCEPT !.pc = "done", !.response = Failed(<<"detect">>)]
                 ELSE IF job.items = <<>>
                 THEN [job EXCEPT !.pc = "done", !.lang = d.name,
                          !.response = Completed(NoFilesResult)]
                 ELSE StartBatch([job EXCEPT !.lang = d.name,
                                             !.doc = BaseDocument(job.existing)], 0)
    /\ UNCHANGED <<sigVars, ltmVars, exeVars, rateVars, buildVars>>

\* one promise of the batch settles (outOfOrder records that one settled
\* before the promise of an earlier file)
JobSettle ==
    /\ job.pc = "batch"
    /\ \E k \in job.pending :
          job' = [job EXCEPT
                    !.pending = @ \ {k},
                    !.outOfOrder = @ \/ \E earlier \in job.pending : earlier < k,
                    !.batchResults =
                        (ResultSlot(k, job.batchResults)
                            :> Settled(BatchOf(job.items, job.done)[k], job.key)) @@ @]
    /\ UNCHANGED <<sigVars, ltmVars, exeVars, rateVars, buildVars>>

\* await Promise.all(batchPromises) returns and the results are applied.  A
\* throw ends the job with the error response; after the last batch the
\* success response is built; else the job waits for a minute.
JobMerge ==
    /\ job.pc = "batch"
    /\ job.pending = {}
    /\ LET locals == ApplyResults(
                         [doc |-> job.doc, results |-> job.results,
                          total |-> job.total, threw |-> FALSE],
                         job.batchResults, 1, job.lang)
           j == [job EXCEPT !.doc = locals.doc, !.results = locals.results,
                            !.total = locals.total, !.batchResults = EmptyObject,
                            !.merged = TRUE]
       IN job' = IF locals.threw
                 THEN [j EXCEPT !.pc = "done", !.response = Failed(<<"merge">>)]
                 ELSE IF MoreBatches(job.items, job.done)
                 THEN [j EXCEPT !.pc = "cooldown", !.waits = @ + 1,
                                !.timer = ONE_MINUTE_MS]
                 ELSE [j EXCEPT !.pc = "save",
                          !.payload = TaskResult(
                              <<"Processed ", locals.total, " endpoints.">>,
                              locals.doc, locals.results, locals.total)]
    /\ UNCHANGED <<sigVars, ltmVars, exeVars, rateVars, buildVars>>

\* half a minute of the wait passes
JobTimer ==
    /\ job.pc = "cooldown"
    /\ job.timer > 0
    /\ job' = [job EXCEPT !.timer = @ - ONE_MINUTE_MS \div 2,
                          !.waited = @ + ONE_MINUTE_MS \div 2]
    /\ UNCHANGED <<sigVars, ltmVars, exeVars, rateVars, buildVars>>

\* the minute is over: the next batch starts
JobCooldownOver ==
    /\ job.pc = "cooldown"
    /\ TimerFired(job.timer)
    /\ job' = StartBatch(job, job.done + GEMINI_RPM_LIMIT)
    /\ UNCHANGED <<sigVars, ltmVars, exeVars, rateVars, buildVars>>

\* await saveToLTM(taskSignature, successResponse["results/task"], ltmData)
JobSave ==
    /\ job.pc = "save"
    /\ \E ok \in BOOLEAN :
          LET after == SaveToLTM(JobSignature, job.payload, job.ltm, clock)
          IN /\ ltmFile' = WriteLTM(ltmFile, after, ok)
             /\ job' = [job EXCEPT !.pc = "respond", !.handed = after,
                                   !.wrote = IF ok THEN "written" ELSE "failed"]
    /\ UNCHANGED <<sigVars, ltmData, clock, lastPut, puts, exeVars, rateVars, buildVars>>

\* res.status(200).json(successResponse)
JobRespond ==
    /\ job.pc = "respond"
    /\ job' = [job EXCEPT !.pc = "done", !.response = Completed(job.payload)]
    /\ UNCHANGED <<sigVars, ltmVars, exeVars, rateVars, buildVars>>

JobNext ==
    \/ JobArrive
    \/ JobDetect
    \/ JobSettle
    \/ JobMerge
    \/ JobTimer
    \/ JobCooldownOver
    \/ JobSave
    \/ JobRespond

SpecJob == JobInit /\ [][JobNext]_vars

(***************************************************************************)
(* Properties of a job (SpecJob)                                           *)
(***************************************************************************)
\* the job was answered with the result of processing its files
JobProcessed ==
    /\ job.pc = "done"
    /\ job.merged
    /\ job.response.status = "completed"

\* C11: a job that missed the store, had files and ran to completion has
\* called saveToLTM by the time it responds; the store handed to the write
\* holds, under the task's signature, the payload of the response, and so does
\* the file when the write succeeded.
C11_SavedBeforeResponse ==
    JobProcessed =>
        /\ job.wrote # "none"
        /\ FindInLTM(JobSignature, job.handed) = job.response.task
        /\ job.wrote = "written" =>
               FindInLTM(JobSignature, ReadLTM(ltmFile)) = job.response.task

C11_Witness ==
    /\ JobProcessed
    /\ job.wrote = "written"
    /\ job.read = "text"
    /\ Len(job.handed) = LTM_WINDOW_SIZE
    /\ job.response.task.endpoints_found = 2
    /\ FindInLTM(JobSignature, ReadLTM(ltmFile)) = job.response.task

\* the worker call of the i-th file failed, or succeeded with endpoints
Failing(i) ==
    /\ ~Blank(job.items[i])
    /\ ~job.key \/ job.items[i].reply = Rejected

Succeeded(i) ==
    /\ ~Blank(job.items[i])
    /\ job.key
    /\ job.items[i].reply.kind = "answer"

\* no reply of the job holds an endpoint on which buildOpenApiEndpoint throws
WellFormed ==
    \A i \in 1..Len(job.items) :
        Succeeded(i) =>
            \A k \in 1..Len(job.items[i].reply.endpoints) :
                ~BuildThrows(job.items[i].reply.endpoints[k])

\* the endpoints that reach the document: <<file, place in its reply>>
Contributions ==
    UNION {{<<i, k>> : k \in {n \in 1..Len(job.items[i].reply.endpoints) :
                                  ~Skipped(job.items[i].reply.endpoints[n])}} :
           i \in {n \in 1..Len(job.items) : Succeeded(n)}}

EndpointAt(c) == job.items[c[1]].reply.endpoints[c[2]]

KeyAt(c) == <<EndpointAt(c).path.chars, ToLowerCase(EndpointAt(c).method.chars)>>

Before(c, d) == c[1] < d[1] \/ (c[1] = d[1] /\ c[2] < d[2])

\* the last contribution under a key
LastAt(key) ==
    CHOOSE c \in Contributions :
        /\ KeyAt(c) = key
        /\ \A d \in Contributions : KeyAt(d) = key => d = c \/ Before(d, c)

\* the <<path, method>> keys a document's paths hold
KeysOf(paths) == UNION {{<<p, m>> : m \in DOMAIN paths[p]} : p \in DOMAIN paths}

\* The document is the base document with, under every key contributed, the
\* description built from the last contribution.
BasePlusContributions(doc) ==
    LET base == BaseDocument(job.existing)
        contributed == {KeyAt(c) : c \in Contributions}
    IN /\ DOMAIN doc = DOMAIN base
       /\ doc.info = base.info
       /\ KeysOf(doc.paths) = KeysOf(base.paths) \cup contributed
       /\ \A key \in KeysOf(doc.paths) :
             doc.paths[key[1]][key[2]] =
                 IF key \in contributed THEN BuildOpenApiEndpoint(EndpointAt(LastAt(key)))
                 ELSE base.paths[key[1]][key[2]]

ExpectedFileResult(i) ==
    IF Blank(job.items[i])
    THEN [file_path |-> <<"Unknown">>, endpoints_found |-> 0, documentation |-> <<>>]
    ELSE IF ~Succeeded(i)
    THEN [file_path |-> job.items[i].file_path, endpoints_found |-> 0,
          documentation |-> <<>>]
    ELSE [file_path |-> job.items[i].file_path, language_detected |-> job.lang,
          endpoints_found |-> Len(job.items[i].reply.endpoints),
          documentation |-> job.items[i].reply.endpoints]

\* C13: in whatever order the calls of a batch settle, file_by_file_results
\* lists the files in their original order, each with its own outcome, and
\* under every (path, method) the merged document holds the description of
\* the last file, in original order, that yields it.
C13_SettleOrderIrrelevant ==
    (job.pc = "done" /\ job.merged /\ job.response.status = "completed") =>
        /\ job.response.task.file_by_file_results
              = [i \in 1..Len(job.items) |-> ExpectedFileResult(i)]
        /\ \A c \in Contributions :
              job.response.task.merged_documentation.paths[KeyAt(c)[1]][KeyAt(c)[2]]
                  = BuildOpenApiEndpoint(EndpointAt(LastAt(KeyAt(c))))

C13_Witness ==
    /\ job.pc = "done"
    /\ job.outOfOrder
    /\ job.response.status = "completed"
    /\ Len(job.items) = 2
    /\ <<1, 1>> \in Contributions
    /\ <<2, 1>> \in Contributions
    /\ KeyAt(<<1, 1>>) = KeyAt(<<2, 1>>)
    /\ EndpointAt(<<1, 1>>) # EndpointAt(<<2, 1>>)
    /\ job.response.task.merged_documentation.paths[KeyAt(<<2, 1>>)[1]][KeyAt(<<2, 1>>)[2]]
          = BuildOpenApiEndpoint(EndpointAt(<<2, 1>>))

\* C14 (the claim as stated): a key merged more than once holds exactly the
\* description built from the last merge, and the document holds no two
\* descriptions for the same path and the same lower-cased method.
C14_LastWriteWins ==
    (job.pc = "done" /\ job.merged /\ job.response.status = "completed") =>
        LET paths == job.response.task.merged_documentation.paths
        IN /\ \A c, d \in Contributions :
                 (c # d /\ KeyAt(c) = KeyAt(d)) =>
                     paths[KeyAt(c)[1]][KeyAt(c)[2]]
                         = BuildOpenApiEndpoint(EndpointAt(LastAt(KeyAt(c))))
           /\ \A p \in DOMAIN paths :
                 \A m1, m2 \in DOMAIN paths[p] :
                     ToLowerCase(m1) = ToLowerCase(m2) => m1 = m2

(***************************************************************************)
(* The calls to the inference service over time (SpecRate)                 *)
(***************************************************************************)
MaxJobs == 2
MaxMinutes == 2

\* the instants looked at: the full minutes, and a millisecond before and
\* after each
Instants ==
    {t \in {k * ONE_MINUTE_MS + e : k \in 0..MaxMinutes, e \in {-1, 0, 1}} : t >= 0}

\* the numbers of files (all with content) a job may have: one, a full batch,
\* one more than a batch
JobSizes == {1, GEMINI_RPM_LIMIT, GEMINI_RPM_LIMIT + 1}

IdleRateJob == [pc |-> "idle", files |-> 0, done |-> 0, wake |-> 0]

\* batch.map(file => callGeminiAPI(...)): the calls of the batch that follows
\* `done` files start together, now
CallsOfBatch(files, done, time) ==
    [at |-> time,
     n |-> IF done + GEMINI_RPM_LIMIT < files THEN GEMINI_RPM_LIMIT ELSE files - done]

RateInit ==
    /\ rateJobs = [j \in 1..MaxJobs |-> IdleRateJob]
    /\ rateNow = 0
    /\ rateCalls = <<>>
    /\ job = NoJob
    /\ build = NoBuild
    /\ ltmData = <<>> /\ ltmFile = NoFile /\ clock = 0 /\ lastPut = NoPut /\ puts = 0
    /\ reqs = <<>> /\ head = "1"
    /\ taskA = Undef /\ taskB = Undef
    /\ remoteA = NotCalled /\ remoteB = NotCalled
    /\ sigA = NoSig /\ sigB = NoSig
    /\ sigStep = "none"

\* a request arrives, misses the store and reaches its loop: the first batch
\* of calls starts
RateArrive(j) ==
    /\ rateJobs[j].pc = "idle"
    /\ \E files \in JobSizes :
          /\ rateJobs' = [rateJobs EXCEPT ![j] =
                 [pc |-> "calling", files |-> files, done |-> 0, wake |-> 0]]
          /\ rateCalls' = Append(rateCalls, CallsOfBatch(files, 0, rateNow))
    /\ UNCHANGED <<rateNow, sigVars, ltmVars, exeVars, jobVars, buildVars>>

\* await Promise.all(batchPromises) returns, however long the calls took; if
\* files are left, setTimeout(resolve, ONE_MINUTE_MS) is set
RateBatchDone(j) ==
    /\ rateJobs[j].pc = "calling"
    /\ rateJobs' = [rateJobs EXCEPT ![j] =
           IF @.done + GEMINI_RPM_LIMIT < @.files
           THEN [@ EXCEPT !.pc = "waiting", !.wake = rateNow + ONE_MINUTE_MS]
           ELSE [@ EXCEPT !.pc = "done"]]
    /\ UNCHANGED <<rateNow, rateCalls, sigVars, ltmVars, exeVars, jobVars, buildVars>>

\* the timer fires, not before its time: the next batch of calls starts
RateWake(j) ==
    /\ rateJobs[j].pc = "waiting"
    /\ rateNow >= rateJobs[j].wake
    /\ rateJobs' = [rateJobs EXCEPT ![j] =
           [@ EXCEPT !.pc = "calling", !.done = @ + GEMINI_RPM_LIMIT]]
    /\ rateCalls' = Append(rateCalls,
           CallsOfBatch(rateJobs[j].files, rateJobs[j].done + GEMINI_RPM_LIMIT, rateNow))
    /\ UNCHANGED <<rateNow, sigVars, ltmVars, exeVars, jobVars, buildVars>>

\* time passes
RateTick ==
    /\ \E t \in Instants : t > rateNow /\ rateNow' = t
    /\ UNCHANGED <<rateJobs, rateCalls, sigVars, ltmVars, exeVars, jobVars, buildVars>>

RateNext ==
    \/ \E j \in 1..MaxJobs : RateArrive(j)
    \/ \E j \in 1..MaxJobs : RateBatchDone(j)
    \/ \E j \in 1..MaxJobs : RateWake(j)
    \/ RateTick

SpecRate == RateInit /\ [][RateNext]_vars

RECURSIVE CallsWithin(_, _, _)
CallsWithin(calls, from, to) ==
    IF calls = <<>> THEN 0
    ELSE (IF Head(calls).at >= from /\ Head(calls).at < to THEN Head(calls).n ELSE 0)
         + CallsWithin(Tail(calls), from, to)

\* C15 (the claim as stated): no window of 60 seconds holds the start of more
\* than 10 calls to the inference service, over all requests served.
C15_RateCeiling ==
    \A i \in 1..Len(rateCalls) :
        CallsWithin(rateCalls, rateCalls[i].at, rateCalls[i].at + ONE_MINUTE_MS)
            <= GEMINI_RPM_LIMIT

(***************************************************************************)
(* Further properties of the /execute handler (Spec)                       *)
(***************************************************************************)
\* C16: a request whose discovery yields no file is answered completed with
\* endpoints_found 0, an empty merged_documentation and a message that is not
\* the one of a processed job; it makes no worker call and no write, and a
\* later request with the same task and signature is answered from the store
\* only if another request has written under that signature.
C16_EmptyJobNotCached ==
    \A r \in 1..MaxReqs :
        reqs[r].found = "empty" =>
            /\ reqs[r].pc = "done"
            /\ reqs[r].response.status = "completed"
            /\ ~reqs[r].response.task.ltm_hit
            /\ reqs[r].response.task.endpoints_found = 0
            /\ reqs[r].response.task.merged_documentation = {}
            /\ Head(reqs[r].response.task.status_message) # "Processed "
            /\ reqs[r].workerCalls = 0
            /\ reqs[r].wrote = "none"
            /\ \A r2 \in 1..MaxReqs :
                  (/\ r \in reqs[r2].after
                   /\ reqs[r2].task = reqs[r].task
                   /\ reqs[r2].sig = reqs[r].sig
                   /\ reqs[r2].pc = "done"
                   /\ reqs[r2].response.status = "completed"
                   /\ reqs[r2].response.task.ltm_hit)
                  => \E r3 \in 1..MaxReqs :
                        /\ r3 # r
                        /\ reqs[r3].sig = reqs[r].sig
                        /\ reqs[r3].wrote = "written"

C16_Witness ==
    \E r, r2 \in 1..MaxReqs :
        /\ reqs[r].found = "empty"
        /\ reqs[r].response = Completed(NoFilesResult)
        /\ r \in reqs[r2].after
        /\ reqs[r2].task = reqs[r].task
        /\ reqs[r2].sig = reqs[r].sig
        /\ reqs[r2].discoveries = 1
        /\ reqs[r2].pc = "done"
        /\ ltmFile = NoFile

\* C19 (the claim as stated): after a request whose result was handed to
\* saveToLTM and whose write failed, a later request with the same task and
\* signature is answered as a cache hit.
C19_HitAfterFailedWrite ==
    \A r1, r2 \in 1..MaxReqs :
        (/\ reqs[r2].pc = "done"
         /\ r1 \in reqs[r2].after
         /\ reqs[r1].task = reqs[r2].task
         /\ reqs[r1].sig = reqs[r2].sig
         /\ Processed(reqs[r1])
         /\ reqs[r1].wrote = "failed")
        => /\ reqs[r2].response.status = "completed"
           /\ reqs[r2].response.task.ltm_hit

C18_UnreadableStoreIsEmpty ==
    (job.pc # "none" /\ job.read \in {"missing", "garbage"}) =>
        /\ job.ltm = <<>>
        /\ job.pc # "arrived"
        /\ job.response.status = "completed" => ~job.response.task.ltm_hit
        /\ job.response.status = "failed" =>
               job.response.task.error_details \in {<<"detect">>, <<"merge">>}

C18_Witness ==
    /\ job.read = "garbage"
    /\ job.ltm = <<>>
    /\ JobProcessed
    /\ job.wrote = "written"
    /\ ltmFile.kind = "text"

\* C20 (the claim as stated): without an API key, when every call to the
\* worker is rejected, the job is answered failed and writes nothing.
C20_ConfigErrorFatal ==
    (job.pc = "done" /\ ~job.key /\ job.calls > 0) =>
        /\ job.response.status = "failed"
        /\ job.wrote = "none"

(***************************************************************************)
(* The document, the batches and the worker calls of a job (SpecJob)       *)
(***************************************************************************)
\* the paths of the document the task brought, if it brought one
PriorPaths ==
    IF job.existing.kind = "object" /\ "paths" \in DOMAIN job.existing.map
    THEN job.existing.map.paths
    ELSE EmptyObject

\* C21: in the document of a processed job, every (path, method) entry of the
\* document the task brought that no file of the job yielded again is there
\* unchanged; when the task brought no document, the paths hold only the
\* entries the files of the job yielded.
C21_PriorEntriesKept ==
    JobProcessed =>
        LET doc == job.response.task.merged_documentation
            contributed == {KeyAt(c) : c \in Contributions}
        IN /\ \A key \in KeysOf(PriorPaths) \ contributed :
                 /\ key \in KeysOf(doc.paths)
                 /\ doc.paths[key[1]][key[2]] = PriorPaths[key[1]][key[2]]
           /\ job.existing.kind # "object" => KeysOf(doc.paths) = contributed

C21_Witness ==
    /\ JobProcessed
    /\ KeysOf(PriorPaths) = {<<GetPath, <<"g", "e", "t">> >>}
    /\ {KeyAt(c) : c \in Contributions} = {<<PostPath, <<"p", "o", "s", "t">> >>}
    /\ job.response.task.merged_documentation.paths[GetPath][<<"g", "e", "t">>]
          = OldDescription
    /\ PostPath \in DOMAIN job.response.task.merged_documentation.paths

\* the job was answered from the store
JobHit ==
    /\ job.pc = "done"
    /\ job.response.status = "completed"
    /\ job.response.task.ltm_hit

\* C22: the lookup leaves the store as it was read, and a job answered from
\* the store has put nothing: the store it holds is the one of the file, entry
\* for entry and timestamp for timestamp, saveToLTM was not called, and the
\* file is the one the job found.
C22_LookupLeavesStore ==
    /\ job.pc \in {"detect", "batch", "cooldown", "save"} => job.ltm = ReadLTM(ltmFile)
    /\ JobHit =>
           /\ job.ltm = ReadLTM(ltmFile)
           /\ ltmFile \in JobFiles
           /\ job.wrote = "none"
           /\ job.handed = <<>>
           /\ job.calls = 0

C22_Witness ==
    /\ JobHit
    /\ Len(job.ltm) = 1
    /\ job.ltm[1].key = JobSignature
    /\ job.ltm[1].timestamp < clock
    /\ job.response.task.status_message = <<"[LTM HIT] ">> \o StoredPayload.status_message

\* the number of batches that n files make
BatchCount(n) == (n + GEMINI_RPM_LIMIT - 1) \div GEMINI_RPM_LIMIT

\* the batches that hold the i-th file
BatchesHolding(i) ==
    {k \in 1..Len(job.batches) :
        /\ job.batches[k].from <= i
        /\ i < job.batches[k].from + Len(job.batches[k].items)}

\* C23: the k-th batch started (from 0) holds the files from place 10k to
\* place 10k+9 (from 0) of the list, in the order of the list; in a processed
\* job every file is in exactly one batch, and file_by_file_results lists the
\* outcomes of the files of all batches in the order of the list.
C23_ConsecutiveBatches ==
    /\ \A k \in 1..Len(job.batches) :
          LET first == GEMINI_RPM_LIMIT * (k - 1) + 1
              last == IF GEMINI_RPM_LIMIT * k < Len(job.items)
                      THEN GEMINI_RPM_LIMIT * k ELSE Len(job.items)
          IN /\ job.batches[k].from = first
             /\ job.batches[k].items = [n \in 1..(last - first + 1) |->
                                           job.items[first + n - 1]]
             /\ Len(job.batches[k].items) \in 1..GEMINI_RPM_LIMIT
    /\ JobProcessed =>
          /\ Len(job.batches) = BatchCount(Len(job.items))
          /\ \A i \in 1..Len(job.items) : Cardinality(BatchesHolding(i)) = 1
          /\ Len(job.response.task.file_by_file_results) = Len(job.items)
          /\ \A i \in 1..Len(job.items) :
                job.response.task.file_by_file_results[i] = ExpectedFileResult(i)

C23_Witness ==
    /\ JobProcessed
    /\ job.items = MixedLongItemList
    /\ Len(job.batches) = 2
    /\ Len(job.batches[1].items) = GEMINI_RPM_LIMIT
    /\ job.batches[2].items = <<MixedLongItemList[GEMINI_RPM_LIMIT + 1]>>
    /\ job.response.task.file_by_file_results[GEMINI_RPM_LIMIT + 1].file_path
          = <<"k", ".", "j", "s">>
    /\ job.response.task.file_by_file_results[3].file_path = <<"c", ".", "j", "s">>

\* the content of the i-th file is empty or white space only
NoContent(i) ==
    \A n \in 1..Len(job.items[i].code_snippet) : job.items[i].code_snippet[n] \in WhiteSpace

\* the places of `invoked` at which the worker was called for the i-th file
CallsFor(i) == {n \in 1..Len(job.invoked) : job.invoked[n] = i}

\* C24: the worker is never called for a file whose content is empty or
\* white space only; in the response of a processed job the file has its
\* entry, at its own place, with zero endpoints and no documentation.
C24_BlankNeverInvoked ==
    \A i \in 1..Len(job.items) :
        NoContent(i) =>
            /\ CallsFor(i) = {}
            /\ job.calls <= Cardinality({n \in 1..Len(job.items) : ~NoContent(n)})
            /\ JobProcessed =>
                   /\ Len(job.response.task.file_by_file_results) = Len(job.items)
                   /\ job.response.task.file_by_file_results[i].endpoints_found = 0
                   /\ job.response.task.file_by_file_results[i].documentation = <<>>

C24_Witness ==
    /\ JobProcessed
    /\ Len(job.items) = 2
    /\ job.items[1].code_snippet = WhiteSnippet
    /\ Succeeded(2)
    /\ job.invoked = <<2>>
    /\ job.calls = 1
    /\ job.response.task.file_by_file_results[1].endpoints_found = 0
    /\ job.response.task.file_by_file_results[2].endpoints_found = 1

\* C25: the worker is called at most once for a file, and by the time a job
\* that is not ended by a throw builds its response it has been called
\* exactly once for every file with content, in the order of the list,
\* whatever the calls return: a rejected call takes away neither the calls
\* for the other files of its batch nor the batches after it.
C25_InvokedExactlyOnce ==
    /\ \A i \in 1..Len(job.items) : Cardinality(CallsFor(i)) <= 1
    /\ \A n, m \in 1..Len(job.invoked) : n < m => job.invoked[n] < job.invoked[m]
    /\ (job.pc \in {"save", "respond"} \/ JobProcessed) =>
          /\ \A i \in 1..Len(job.items) :
                Cardinality(CallsFor(i)) = IF NoContent(i) THEN 0 ELSE 1
          /\ job.calls = Len(job.invoked)
          /\ Len(job.batches) = BatchCount(Len(job.items))

C25_Witness ==
    /\ JobProcessed
    /\ job.items = MixedLongItemList
    /\ Failing(1)
    /\ job.invoked = <<1>> \o [n \in 1..(GEMINI_RPM_LIMIT - 1) |-> n + 2]
    /\ job.response.task.file_by_file_results[1].endpoints_found = 0
    /\ job.response.task.endpoints_found = GEMINI_RPM_LIMIT - 1

\* C26 (the claim as stated): in the response of a processed job, the entry of
\* a file whose call failed holds the message of the error, and differs from
\* the entry of a file without content and from the entry of a file whose
\* call succeeded with no endpoint.
C26_FailureCarriesMessage ==
    JobProcessed =>
        \A i \in 1..Len(job.items) :
            Failing(i) =>
                LET entry == job.response.task.file_by_file_results[i]
                IN /\ "error" \in DOMAIN entry
                   /\ entry.error = ErrorMessage(job.key)
                   /\ entry # [file_path |-> <<"Unknown">>, endpoints_found |-> 0,
                               documentation |-> <<>>]
                   /\ "language_detected" \notin DOMAIN entry

\* the worker calls of the job that have not settled
InFlight ==
    IF job.pc = "batch"
    THEN {k \in job.pending : ~Blank(BatchOf(job.items, job.done)[k])}
    ELSE {}

\* C27: a batch after the first is started only when every call of the
\* batches before it has settled, the outcomes of all their files have been
\* merged and the minute after the last of them has run down; and the
\* document changes only while no worker call of the job is in flight.
C27_BatchesDoNotOverlap ==
    [][/\ (Len(job'.batches) > Len(job.batches) /\ Len(job.batches) > 0) =>
              /\ job.pending = {}
              /\ InFlight = {}
              /\ Len(job.results) = GEMINI_RPM_LIMIT * Len(job.batches)
              /\ job.merged
              /\ job.pc = "cooldown"
              /\ job.timer = 0
              /\ job.waited = ONE_MINUTE_MS * Len(job.batches)
       /\ job'.doc # job.doc => InFlight = {}]_vars

C27_Witness ==
    /\ job.pc = "batch"
    /\ Len(job.batches) = 2
    /\ InFlight # {}
    /\ job.waited = ONE_MINUTE_MS
    /\ Len(job.results) = GEMINI_RPM_LIMIT
    /\ KeysOf(job.doc.paths) # KeysOf(PriorPaths)

\* C28: a job never waits more often than once between two batches; a job
\* with files that runs to its response has waited exactly ceil(n/10) - 1
\* times, a full minute each time, once after every batch but the last.
C28_CooldownCount ==
    /\ job.pc = "batch" => job.waits = Len(job.batches) - 1
    /\ job.pc = "cooldown" => job.waits = Len(job.batches)
    /\ job.waited = ONE_MINUTE_MS * job.waits - job.timer
    /\ (job.pc \in {"save", "respond"} \/ JobProcessed) =>
          /\ Len(job.items) > 0
          /\ job.waits = BatchCount(Len(job.items)) - 1
          /\ job.waited = ONE_MINUTE_MS * (BatchCount(Len(job.items)) - 1)
          /\ job.timer = 0

C28_Witness ==
    /\ JobProcessed
    /\ Len(job.items) = GEMINI_RPM_LIMIT + 1
    /\ Len(job.batches) = 2
    /\ job.waits = 1
    /\ job.waited = ONE_MINUTE_MS

\* the path or the method of the endpoint is absent or empty
Dropped(endpoint) ==
    \/ endpoint.path \in {Undef, Str(<<>>)}
    \/ endpoint.method \in {Undef, Str(<<>>)}

\* the endpoints of the replies of the files whose call succeeded
RawEndpoints ==
    UNION {{job.items[i].reply.endpoints[k] : k \in 1..Len(job.items[i].reply.endpoints)} :
           i \in {n \in 1..Len(job.items) : Succeeded(n)}}

\* C29: merging an endpoint whose path or method is absent or empty leaves
\* the document as it is and throws nothing; a job in whose replies no other
\* endpoint makes buildOpenApiEndpoint throw is answered completed, and its
\* document is the base document plus the entries of the endpoints that have
\* both a path and a method, those that follow a dropped one included.
C29_DroppedEndpointsIgnored ==
    /\ "paths" \in DOMAIN job.doc =>
          \A e \in RawEndpoints :
              Dropped(e) => MergeEndpoints(job.doc.paths, <<e>>, 1)
                                = [paths |-> job.doc.paths, threw |-> FALSE]
    /\ (/\ job.pc = "done"
        /\ job.merged
        /\ \A e \in RawEndpoints : ~Dropped(e) => ~BuildThrows(e)) =>
          /\ job.response.status = "completed"
          /\ BasePlusContributions(job.response.task.merged_documentation)

C29_Witness ==
    /\ JobProcessed
    /\ Len(job.items) = 1
    /\ Succeeded(1)
    /\ Len(job.items[1].reply.endpoints) = 4
    /\ Dropped(job.items[1].reply.endpoints[1])
    /\ Dropped(job.items[1].reply.endpoints[2])
    /\ Dropped(job.items[1].reply.endpoints[3])
    /\ job.existing = Undef
    /\ KeysOf(job.response.task.merged_documentation.paths)
          = {<<PostPath, <<"p", "o", "s", "t">> >>}

(***************************************************************************)
(* buildOpenApiEndpoint called on one endpoint, in each of the files that  *)
(* define it (SpecBuild)                                                   *)
(***************************************************************************)
\* the words a method may be, each in every mix of capital and small letters,
\* and with a letter more or less
MethodWords ==
    {<<"p", "o", "s", "t">>, <<"g", "e", "t">>, <<"p", "u", "t">>,
     <<"p", "o", "s", "t", "s">>, <<"p", "o", "s">>}

Capital(c) == CapitalLetters[CHOOSE i \in 1..Len(SmallLetters) : SmallLetters[i] = c]

LetterCases(word) ==
    {[i \in 1..Len(word) |-> IF i \in caps THEN Capital(word[i]) ELSE word[i]] :
        caps \in SUBSET (1..Len(word))}

Methods == UNION {LetterCases(word) : word \in MethodWords}

\* what the requestBodySchema field may hold: nothing, or a text
SchemaFields ==
    {Undef} \cup {Str(t) : t \in {<<>>, EmptyObjectText, ObjectText, StringText,
                                  ArrayText, NullText, ZeroText, BrokenText}}

\* an entry of errorResponses
ErrorResponse(code, description) ==
    ObjMap([code |-> code, description |-> description])

\* what the errorResponses field may hold: nothing, a string, an array of
\* entries whose code is a string, a number, or absent
ErrorResponsesFields ==
    {Undef, Str(<<"a">>), Arr(<<>>),
     Arr(<<ErrorResponse(Undef, Str(<<"E", "0">>))>>),
     Arr(<<ErrorResponse(Str(<<"4", "0", "4">>), Str(<<"E", "1">>))>>),
     Arr(<<ErrorResponse(Str(<<"2", "0", "0">>), Str(<<"E", "2">>))>>),
     Arr(<<ErrorResponse(Num(201), Str(<<"E", "3">>))>>),
     Arr(<<ErrorResponse(Str(<<"4", "0", "4">>), Str(<<"E", "1">>)),
           ErrorResponse(Str(<<"4", "0", "4">>), Undef)>>)}

BuildInputs ==
    {[Endpoint(Str(p), Str(m), s, b) EXCEPT !.successResponseSchema = r,
                                            !.errorResponses = e] :
        p \in {GetPath, PostPath}, m \in Methods,
        s \in {Undef, Str(<<"S", "1">>)}, b \in SchemaFields,
        r \in {Undef, Str(ObjectText)}, e \in ErrorResponsesFields}

\* generate-docs.js: the key of the success response.  The literal for post
\* is '201' followed by the two characters U+00C3 and U+0192.
SuccessCodeGenerateDocs(lcMethod) ==
    IF lcMethod = <<"p", "o", "s", "t">> THEN "201<U+00C3><U+0192>" ELSE "200"

\* unnamed/part_001: the key of the success response
SuccessCodePart001(lcMethod) ==
    IF lcMethod = <<"p", "o", "s", "t">> THEN "201" ELSE "200"

\* the success response of generate-docs.js and of unnamed/part_001
SuccessResponseOlder(endpoint) ==
    [description |-> Str(<<"S", "u", "c", "c", "e", "s", "s", "f", "u", "l", " ",
                           "o", "p", "e", "r", "a", "t", "i", "o", "n">>),
     schema |-> OrElse(ParsedOrNull(endpoint.successResponseSchema),
                       ObjMap([type |-> Str(<<"o", "b", "j", "e", "c", "t">>),
                               properties |-> ObjMap([message |->
                                   ObjMap([type |-> Str(<<"s", "t", "r", "i", "n", "g">>)])])]))]

\* buildOpenApiEndpoint of generate-docs.js and of unnamed/part_001: the
\* summary or its default, the request body only when the schema parses to an
\* object with keys, the success response under successCode
BuildOlder(endpoint, successCode) ==
    LET reqBodySchemaObj == ParsedOrNull(endpoint.requestBodySchema)
        success == successCode :> SuccessResponseOlder(endpoint)
        fixed == [summary |-> OrElse(endpoint.summary, Str(<<"No summary provided">>)),
                  responses |-> IF Truthy(endpoint.errorResponses)
                                THEN AddErrorResponses(success,
                                         ItemsOf(endpoint.errorResponses), 1)
                                ELSE success]
    IN IF Truthy(reqBodySchemaObj) /\ ObjectKeys(reqBodySchemaObj) # {}
       THEN fixed @@ [requestBody |-> reqBodySchemaObj]
       ELSE fixed

BuildOpenApiEndpointGenerateDocs(endpoint) ==
    BuildOlder(endpoint, SuccessCodeGenerateDocs(ToLowerCase(endpoint.method.chars)))

BuildOpenApiEndpointPart001(endpoint) ==
    BuildOlder(endpoint, SuccessCodePart001(ToLowerCase(endpoint.method.chars)))

BuildInit ==
    /\ build \in {[pc |-> "endpoint", endpoint |-> e] : e \in BuildInputs}
    /\ job = NoJob
    /\ rateJobs = <<>> /\ rateNow = 0 /\ rateCalls = <<>>
    /\ ltmData = <<>> /\ ltmFile = NoFile /\ clock = 0 /\ lastPut = NoPut /\ puts = 0
    /\ reqs = <<>> /\ head = "1"
    /\ taskA = Undef /\ taskB = Undef
    /\ remoteA = NotCalled /\ remoteB = NotCalled
    /\ sigA = NoSig /\ sigB = NoSig
    /\ sigStep = "none"

Built(file, openApiEndpoint) ==
    [pc |-> "built", endpoint |-> build.endpoint, file |-> file,
     openApiEndpoint |-> openApiEndpoint]

\* buildOpenApiEndpoint(endpoint) of app.js
BuildApp ==
    /\ build.pc = "endpoint"
    /\ build' = Built("app.js", BuildOpenApiEndpoint(build.endpoint))
    /\ UNCHANGED <<sigVars, ltmVars, exeVars, jobVars, rateVars>>

\* buildOpenApiEndpoint(endpoint) of generate-docs.js
BuildGenerateDocs ==
    /\ build.pc = "endpoint"
    /\ build' = Built("generate-docs.js", BuildOpenApiEndpointGenerateDocs(build.endpoint))
    /\ UNCHANGED <<sigVars, ltmVars, exeVars, jobVars, rateVars>>

\* buildOpenApiEndpoint(endpoint) of unnamed/part_001
BuildPart001 ==
    /\ build.pc = "endpoint"
    /\ build' = Built("unnamed/part_001", BuildOpenApiEndpointPart001(build.endpoint))
    /\ UNCHANGED <<sigVars, ltmVars, exeVars, jobVars, rateVars>>

BuildNext == BuildApp \/ BuildGenerateDocs \/ BuildPart001

SpecBuild == BuildInit /\ [][BuildNext]_vars

\* the method is post, in whatever letter case
IsPost(method) ==
    /\ Len(method) = 4
    /\ method[1] \in {"p", "P"}
    /\ method[2] \in {"o", "O"}
    /\ method[3] \in {"s", "S"}
    /\ method[4] \in {"t", "T"}

\* C30 (the claim as stated): whichever file's buildOpenApiEndpoint is called,
\* the success response is under "201" when the method is post in any letter
\* case and under "200" for every other method, and under no other key.
C30_SuccessCode ==
    (build.pc = "built" /\ build.endpoint.errorResponses = Undef) =>
        DOMAIN build.openApiEndpoint.responses
            = {IF IsPost(build.endpoint.method.chars) THEN "201" ELSE "200"}

\* the requestBodySchema field holds the text of an object with a member
NonEmptySchemaGiven(field) == field = Str(ObjectText)

\* C31 (the claim as stated): whichever file's buildOpenApiEndpoint is called,
\* the description holds a request body exactly when the requestBodySchema
\* given parses to an object that is not empty.
C31_RequestBodyIffSchema ==
    build.pc = "built" =>
        ("requestBody" \in DOMAIN build.openApiEndpoint
            <=> NonEmptySchemaGiven(build.endpoint.requestBodySchema))

(***************************************************************************)
(* A job whose awaits all return (SpecJobLive)                             *)
(***************************************************************************)
\* Every promise the handler awaits settles: the reads and writes of the
\* file, the call of detectLanguage, every worker call of a batch, the timer.
\* The handler goes on as soon as what it waits for is there.
\* the jobs followed: without files, with one file, with more files than a
\* batch holds; the store missing, unreadable, or holding the job's result
JobLiveInit ==
    /\ JobInit
    /\ Len(job.items) \in {0, 1, GEMINI_RPM_LIMIT + 1}
    /\ job.existing = Undef
    /\ Len(ReadLTM(ltmFile)) <= 1

\* WF_vars(JobMerge), the condition under which JobMerge is enabled written
\* out: Promise.all has returned
MergeFair ==
    \/ []<>~(job.pc = "batch" /\ job.pending = {})
    \/ []<><<JobMerge>>_vars

SpecJobLive ==
    /\ JobLiveInit
    /\ [][JobNext]_vars
    /\ WF_vars(JobArrive)
    /\ WF_vars(JobDetect)
    /\ WF_vars(JobSettle)
    /\ MergeFair
    /\ WF_vars(JobTimer)
    /\ WF_vars(JobCooldownOver)
    /\ WF_vars(JobSave)
    /\ WF_vars(JobRespond)

C33_NoEntryLost ==
    \A r \in 1..MaxReqs :
        (reqs[r].pc = "done" /\ reqs[r].wrote = "written") =>
            reqs[r].sig \in Keys(ReadLTM(ltmFile))

\* C34: a request whose discovery throws (the extraction of the archive, the
\* clone) is answered failed with the text of the error; it has made no
\* worker call and no write to the store.
C34_DiscoveryFailureFatal ==
    \A r \in 1..MaxReqs :
        reqs[r].found = "thrown" =>
            /\ reqs[r].pc = "done"
            /\ reqs[r].response.status = "failed"
            /\ reqs[r].response.task.error_details = <<"discovery">>
            /\ reqs[r].workerCalls = 0
            /\ reqs[r].wrote = "none"

C34_Witness ==
    \E r, r2 \in 1..MaxReqs :
        /\ reqs[r].found = "thrown"
        /\ ExecuteMode(reqs[r].task) = "git"
        /\ reqs[r].response = Failed(<<"discovery">>)
        /\ reqs[r2].wrote = "written"
        /\ r2 \in reqs[r].after
        /\ Keys(ReadLTM(ltmFile)) = {reqs[r2].sig}

(***************************************************************************)
(* The success response and the error responses (SpecBuild)                *)
(***************************************************************************)
\* the success response the called file's buildOpenApiEndpoint writes
SuccessResponseOf(file, endpoint) ==
    IF file = "app.js" THEN SuccessResponse(endpoint)
    ELSE SuccessResponseOlder(endpoint)

\* C35 (the claim as stated): whichever file's buildOpenApiEndpoint is called
\* and whatever errorResponses holds, the responses of the description hold
\* the success response, its description and its schema, under one of their
\* keys (only the key of the success response can hold it, an error response
\* has no schema).
C35_SuccessResponseKept ==
    build.pc = "built" =>
        \E code \in DOMAIN build.openApiEndpoint.responses :
            build.openApiEndpoint.responses[code]
                = SuccessResponseOf(build.file, build.endpoint)

(***************************************************************************)
(* The revision signed and the revision cloned (Spec)                      *)
(***************************************************************************)
\* C36 (the claim as stated): whenever a request stores its result under a
\* signature that incorporates a commit hash, the revision its discovery
\* cloned is the one of that hash, whatever is pushed meanwhile.
C36_SignedRevisionIsCloned ==
    [][\A r \in 1..MaxReqs :
          (/\ reqs[r].pc = "process"
           /\ reqs'[r].wrote = "written"
           /\ SignatureMode(reqs[r].task) = "git"
           /\ GetGitCommitHash(reqs[r].remote) # Undef)
          => GetGitCommitHash(reqs[r].remote) = Str(<<reqs[r].cloned>>)]_vars

====
